---- MODULE Spec2Model ----
(***************************************************************************)
(* Connectivity state tracking and outage detection of the connection      *)
(* monitor: ServerStats (stats.py), OutageLogger (outage_logger.py), the   *)
(* task structure of main.py and the single-file variant                   *)
(* simpler-connection-detecter.py.                                         *)
(*                                                                         *)
(* Time is a discrete clock `now` counted in ticks; TicksPerSecond ticks   *)
(* make one second.  time.time() reads the clock; a handler that does not  *)
(* await runs within one tick.  Optional[X] is a sequence: <<>> is None,   *)
(* <<x>> is the value x.                                                   *)
(***************************************************************************)
EXTENDS Integers, Sequences, FiniteSets, TLC

\* ---------------------------------------------------------------- bounds
\* results recorded on the single tracker of Spec and SpecIO
MaxProbes == 8
\* results recorded on each tracker of SpecFleet
MaxFleetProbes == 3
\* last value of the clock
MaxTime == 3
\* calls of finalize
MaxFinalize == 1
\* clock ticks per second
TicksPerSecond == 2
\* config.ROLLING_WINDOW, scaled down so that the window overflows
ROLLING_WINDOW == 3
\* passes of the single-file monitor over the server list
MaxRounds == 4
\* PACKET_LOSS_WINDOW of the single-file variant, scaled down
PACKET_LOSS_WINDOW == 3
\* MAX_LOG_SIZE of the single-file variant, scaled down to a number of lines
MAX_LOG_SIZE == 5
\* results recorded on the tracker of SpecTracker
MaxTrackerProbes == 5
\* last value of the clock in SpecTracker
MaxTrackerTime == 4
\* probes started by the ping_loop tasks, all hosts together
MaxMainProbes == 3
\* the deadline of wait_for in ping_host (timeout + 0.5 s), scaled down to ticks
PING_DEADLINE == 1

\* ------------------------------------------------------- program constants
CONSECUTIVE_FAILURES_FOR_OUTAGE == 3
\* single-file variant
OUTAGE_THRESHOLD == 3
\* latency thresholds in ms
LATENCY_GREEN_MS == 60
LATENCY_YELLOW_MS == 150
\* config.SERVERS, two of the hosts
SERVERS == <<"h1", "h2">>

Hosts == {SERVERS[i] : i \in 1..Len(SERVERS)}

None == <<>>
Some(x) == <<x>>

\* Python `x or d` on an Optional number: None and 0 are falsy.
OrElse(x, d) == IF x = None \/ x[1] = 0 THEN d ELSE x[1]

\* Python `error or "fail"` on an Optional string: None and "" are falsy.
ErrorOrFail(e) == IF e = None \/ e[1] = "" THEN "fail" ELSE e[1]

\* DequeAppend without the eviction: a plain list.append.
DequeAppend_unbounded(w, x) == Append(w, x)

\* deque(maxlen=ROLLING_WINDOW).append(x): the oldest element is evicted
\* when the deque is full.
DequeAppend(w, x) ==
    IF Len(w) >= ROLLING_WINDOW
    THEN Append(SubSeq(w, 2, Len(w)), x)
    ELSE Append(w, x)

\* datetime.fromtimestamp(ts).strftime(LOG_TIME_FORMAT): whole seconds.
FormatTs(ts) == ts \div TicksPerSecond

\* f"{duration:.1f}": tenths of a second, ties to even.
FormatDuration(d) ==
    LET q == (d * 10) \div TicksPerSecond
        r == (d * 10) % TicksPerSecond
    IN  IF 2 * r > TicksPerSecond THEN q + 1
        ELSE IF 2 * r = TicksPerSecond THEN q + (q % 2)
        ELSE q

\* ------------------------------------------------------------------ state
VARIABLES
    now,            \* the clock read by time.time()
    stats,          \* stats_map: host -> ServerStats
    journal,        \* lines of the outage log file, in append order
    hist,           \* history: host -> outcomes recorded so far (TRUE = ok)
    run,            \* history: how the current failure run of Tracked was reconciled
    closed,         \* history: host -> durations of the outages closed so far
    finalize_calls, \* history: number of finalize calls made
    raised,         \* whether the last call ended by raising an exception
    fed,            \* history: host -> the last outcome given to record_result
    streaks,        \* history: host -> the uptime streaks of the recorded outcomes
    \* the tasks of main.py
    ploop,          \* host -> where its ping_loop task stands
    stop_event,     \* the asyncio.Event stop_event
    gstats,         \* global_stats
    agg,            \* where the stats_aggregator task stands
    amain,          \* where main_async stands
    \* single-file variant (simpler-connection-detecter.py)
    sstats,         \* stats: server -> counters
    outage_state,   \* outage_state: server -> in_outage, outage_start, outage_count
    running,        \* the global flag `running`
    slog,           \* lines of connection_outages.log
    mon,            \* where the task monitor_servers_sequential stands
    mainpc,         \* where main() stands
    \* the log file on disk (followed in SpecRotate)
    logfile,        \* mtime of the file at OutageLogger.path, and the renamed files
    \* the event loop at statement level (followed in SpecAtomic)
    cpu,            \* the task the event loop is running, "idle" when all are suspended
    mid,            \* host -> the record_result call stopped between two statements
    obs             \* history: what the last reading task found

mainVars == <<ploop, stop_event, gstats, agg, amain>>
sideVars == <<logfile, cpu, mid, obs>>
pkgVars == <<stats, journal, hist, run, closed, finalize_calls, raised,
             fed, streaks, mainVars, sideVars>>
simpleVars == <<sstats, outage_state, running, slog, mon, mainpc>>
vars == <<now, pkgVars, simpleVars>>

\* ServerStats(host), stats.py dataclass defaults
NewServerStats(h) ==
    [ host |-> h,
      success_count |-> 0,
      failure_count |-> 0,
      consecutive_failures |-> 0,
      last_rtt_ms |-> None,
      last_error |-> None,
      window_results |-> <<>>,
      outage_open |-> FALSE,
      outage_start_ts |-> None,
      outage_missed |-> 0,
      first_success_time |-> None,
      last_success_time |-> None,
      uptime_start_time |-> None,
      longest_uptime_streak |-> 0,
      longest_uptime_streak_ts |-> None,
      longest_outage_duration |-> 0,
      longest_outage_ts |-> None,
      new_longest_uptime_recorded |-> FALSE ]

\* record_result whose success branch leaves consecutive_failures alone.
record_result_no_reset(s, ok, rtt_ms, error, t) ==
    IF ok
    THEN [s EXCEPT
            !.new_longest_uptime_recorded = FALSE,
            !.success_count = @ + 1,
            !.last_rtt_ms = rtt_ms,
            !.last_error = None,
            !.window_results = DequeAppend(@, TRUE),
            !.first_success_time = IF @ = None THEN Some(t) ELSE @,
            !.uptime_start_time = IF @ = None THEN Some(t) ELSE @,
            !.last_success_time = Some(t)]
    ELSE [s EXCEPT
            !.new_longest_uptime_recorded = FALSE,
            !.failure_count = @ + 1,
            !.consecutive_failures = @ + 1,
            !.last_rtt_ms = None,
            !.last_error = Some(ErrorOrFail(error)),
            !.window_results = DequeAppend(@, FALSE),
            !.uptime_start_time = None]

\* record_result without the reset of new_longest_uptime_recorded on entry.
record_result_keeps_signal(s, ok, rtt_ms, error, t) ==
    IF ok
    THEN [s EXCEPT
            !.success_count = @ + 1,
            !.consecutive_failures = 0,
            !.last_rtt_ms = rtt_ms,
            !.last_error = None,
            !.window_results = DequeAppend(@, TRUE),
            !.first_success_time = IF @ = None THEN Some(t) ELSE @,
            !.uptime_start_time = IF @ = None THEN Some(t) ELSE @,
            !.last_success_time = Some(t)]
    ELSE
        LET newLongest == s.uptime_start_time # None
                          /\ t - s.uptime_start_time[1] > s.longest_uptime_streak
            s1 == IF newLongest
                  THEN [s EXCEPT
                          !.longest_uptime_streak = t - s.uptime_start_time[1],
                          !.longest_uptime_streak_ts = Some(t),
                          !.new_longest_uptime_recorded = TRUE]
                  ELSE s
        IN [s1 EXCEPT
              !.failure_count = @ + 1,
              !.consecutive_failures = @ + 1,
              !.last_rtt_ms = None,
              !.last_error = Some(ErrorOrFail(error)),
              !.window_results = DequeAppend(@, FALSE),
              !.uptime_start_time = None]

\* record_result with >= in place of > in the longest-streak test.
record_result_ge(s, ok, rtt_ms, error, t) ==
    LET s0 == [s EXCEPT !.new_longest_uptime_recorded = FALSE]
    IN
    IF ok
    THEN [s0 EXCEPT
            !.success_count = @ + 1,
            !.consecutive_failures = 0,
            !.last_rtt_ms = rtt_ms,
            !.last_error = None,
            !.window_results = DequeAppend(@, TRUE),
            !.first_success_time = IF @ = None THEN Some(t) ELSE @,
            !.uptime_start_time = IF @ = None THEN Some(t) ELSE @,
            !.last_success_time = Some(t)]
    ELSE
        LET newLongest == s0.uptime_start_time # None
                          /\ t - s0.uptime_start_time[1] >= s0.longest_uptime_streak
            s1 == IF newLongest
                  THEN [s0 EXCEPT
                          !.longest_uptime_streak = t - s0.uptime_start_time[1],
                          !.longest_uptime_streak_ts = Some(t),
                          !.new_longest_uptime_recorded = TRUE]
                  ELSE s0
        IN [s1 EXCEPT
              !.failure_count = @ + 1,
              !.consecutive_failures = @ + 1,
              !.last_rtt_ms = None,
              !.last_error = Some(ErrorOrFail(error)),
              !.window_results = DequeAppend(@, FALSE),
              !.uptime_start_time = None]

\* record_result whose success branch restarts the uptime streak every time.
record_result_restarts(s, ok, rtt_ms, error, t) ==
    LET s0 == [s EXCEPT !.new_longest_uptime_recorded = FALSE]
    IN
    IF ok
    THEN [s0 EXCEPT
            !.success_count = @ + 1,
            !.consecutive_failures = 0,
            !.last_rtt_ms = rtt_ms,
            !.last_error = None,
            !.window_results = DequeAppend(@, TRUE),
            !.first_success_time = IF @ = None THEN Some(t) ELSE @,
            !.uptime_start_time = Some(t),
            !.last_success_time = Some(t)]
    ELSE
        LET newLongest == s0.uptime_start_time # None
                          /\ t - s0.uptime_start_time[1] > s0.longest_uptime_streak
            s1 == IF newLongest
                  THEN [s0 EXCEPT
                          !.longest_uptime_streak = t - s0.uptime_start_time[1],
                          !.longest_uptime_streak_ts = Some(t),
                          !.new_longest_uptime_recorded = TRUE]
                  ELSE s0
        IN [s1 EXCEPT
              !.failure_count = @ + 1,
              !.consecutive_failures = @ + 1,
              !.last_rtt_ms = None,
              !.last_error = Some(ErrorOrFail(error)),
              !.window_results = DequeAppend(@, FALSE),
              !.uptime_start_time = None]

\* record_result whose success branch closes an open outage itself.
record_result_closes(s, ok, rtt_ms, error, t) ==
    LET s0 == [s EXCEPT !.new_longest_uptime_recorded = FALSE]
    IN
    IF ok
    THEN [s0 EXCEPT
            !.success_count = @ + 1,
            !.consecutive_failures = 0,
            !.last_rtt_ms = rtt_ms,
            !.last_error = None,
            !.window_results = DequeAppend(@, TRUE),
            !.first_success_time = IF @ = None THEN Some(t) ELSE @,
            !.uptime_start_time = IF @ = None THEN Some(t) ELSE @,
            !.last_success_time = Some(t),
            !.outage_open = FALSE,
            !.outage_start_ts = None,
            !.outage_missed = 0]
    ELSE
        LET newLongest == s0.uptime_start_time # None
                          /\ t - s0.uptime_start_time[1] > s0.longest_uptime_streak
            s1 == IF newLongest
                  THEN [s0 EXCEPT
                          !.longest_uptime_streak = t - s0.uptime_start_time[1],
                          !.longest_uptime_streak_ts = Some(t),
                          !.new_longest_uptime_recorded = TRUE]
                  ELSE s0
        IN [s1 EXCEPT
              !.failure_count = @ + 1,
              !.consecutive_failures = @ + 1,
              !.last_rtt_ms = None,
              !.last_error = Some(ErrorOrFail(error)),
              !.window_results = DequeAppend(@, FALSE),
              !.uptime_start_time = None]

\* ServerStats.record_result(ok, rtt_ms, error) at clock value t
record_result(s, ok, rtt_ms, error, t) ==
    LET s0 == [s EXCEPT !.new_longest_uptime_recorded = FALSE]
    IN
    IF ok
    THEN [s0 EXCEPT
            !.success_count = @ + 1,
            !.consecutive_failures = 0,
            !.last_rtt_ms = rtt_ms,
            !.last_error = None,
            !.window_results = DequeAppend(@, TRUE),
            !.first_success_time = IF @ = None THEN Some(t) ELSE @,
            !.uptime_start_time = IF @ = None THEN Some(t) ELSE @,
            !.last_success_time = Some(t)]
    ELSE
        LET ended == IF s0.uptime_start_time # None
                     THEN t - s0.uptime_start_time[1] ELSE 0
            newLongest == s0.uptime_start_time # None
                          /\ ended > s0.longest_uptime_streak
            s1 == IF newLongest
                  THEN [s0 EXCEPT
                          !.longest_uptime_streak = ended,
                          !.longest_uptime_streak_ts = Some(t),
                          !.new_longest_uptime_recorded = TRUE]
                  ELSE s0
        IN [s1 EXCEPT
              !.failure_count = @ + 1,
              !.consecutive_failures = @ + 1,
              !.last_rtt_ms = None,
              !.last_error = Some(ErrorOrFail(error)),
              !.window_results = DequeAppend(@, FALSE),
              !.uptime_start_time = None]

\* ServerStats.packet_loss_pct(): the float failures / len * 100.0, kept
\* as the exact fraction num / den (den = 1 for the constant 0.0).
packet_loss_pct(s) ==
    IF s.window_results = <<>>
    THEN [num |-> 0, den |-> 1]
    ELSE [num |-> Cardinality({i \in 1..Len(s.window_results) :
                                  ~s.window_results[i]}) * 100,
          den |-> Len(s.window_results)]

\* classify_latency with <= in place of < in both tests.
classify_latency_le(s) ==
    IF s.last_rtt_ms = None THEN "timeout"
    ELSE IF s.last_rtt_ms[1] <= LATENCY_GREEN_MS THEN "green"
    ELSE IF s.last_rtt_ms[1] <= LATENCY_YELLOW_MS THEN "yellow"
    ELSE "red"

\* ServerStats.classify_latency(): the class stands for its emoji of config.py
classify_latency(s) ==
    IF s.last_rtt_ms = None THEN "timeout"
    ELSE IF s.last_rtt_ms[1] < LATENCY_GREEN_MS THEN "green"
    ELSE IF s.last_rtt_ms[1] < LATENCY_YELLOW_MS THEN "yellow"
    ELSE "red"

\* ServerStats.current_uptime_streak() at clock value t
current_uptime_streak(s, t) ==
    IF s.consecutive_failures > 0 THEN 0
    ELSE IF s.uptime_start_time = None THEN 0
    ELSE t - s.uptime_start_time[1]

\* OutageLogger.log_outage: the line appended to the journal
OutageLine(host, start_ts, end_ts, missed) ==
    [ kind |-> "OUTAGE",
      host |-> host,
      start_str |-> FormatTs(start_ts),
      end_str |-> FormatTs(end_ts),
      missed |-> missed,
      duration |-> FormatDuration(end_ts - start_ts) ]

\* OutageLogger.log_longest_outage: the line appended to the journal
LongestOutageLine(host, duration, ts) ==
    [ kind |-> "LONGEST_OUTAGE",
      host |-> host,
      ts_str |-> FormatTs(ts),
      duration |-> FormatDuration(duration) ]

\* maybe_open_outage opening one failure early.
maybe_open_outage_early(s, t) ==
    IF ~s.outage_open
       /\ s.consecutive_failures >= CONSECUTIVE_FAILURES_FOR_OUTAGE - 1
    THEN [s EXCEPT
            !.outage_open = TRUE,
            !.outage_start_ts = Some(t),
            !.outage_missed = s.consecutive_failures]
    ELSE s

\* maybe_open_outage with > in place of >=.
maybe_open_outage_strict(s, t) ==
    IF ~s.outage_open
       /\ s.consecutive_failures > CONSECUTIVE_FAILURES_FOR_OUTAGE
    THEN [s EXCEPT
            !.outage_open = TRUE,
            !.outage_start_ts = Some(t),
            !.outage_missed = s.consecutive_failures]
    ELSE s

\* maybe_open_outage storing the threshold as the missed count.
maybe_open_outage_missed_T(s, t) ==
    IF ~s.outage_open
       /\ s.consecutive_failures >= CONSECUTIVE_FAILURES_FOR_OUTAGE
    THEN [s EXCEPT
            !.outage_open = TRUE,
            !.outage_start_ts = Some(t),
            !.outage_missed = CONSECUTIVE_FAILURES_FOR_OUTAGE]
    ELSE s

\* OutageLogger.maybe_open_outage(stats) at clock value t
maybe_open_outage(s, t) ==
    IF ~s.outage_open
       /\ s.consecutive_failures >= CONSECUTIVE_FAILURES_FOR_OUTAGE
    THEN [s EXCEPT
            !.outage_open = TRUE,
            !.outage_start_ts = Some(t),
            !.outage_missed = s.consecutive_failures]
    ELSE s

\* maybe_close_outage that logs but leaves the outage open.
maybe_close_outage_stays_open(s, jr, t, w_outage, w_longest) ==
    IF s.outage_open /\ s.consecutive_failures = 0
    THEN LET start_ts == OrElse(s.outage_start_ts, t)
         IN  [stats |-> s,
              journal |-> Append(jr, OutageLine(s.host, start_ts, t, s.outage_missed)),
              raised |-> FALSE]
    ELSE [stats |-> s, journal |-> jr, raised |-> FALSE]

\* maybe_close_outage with >= in place of > in the longest-outage test.
maybe_close_outage_ge(s, jr, t, w_outage, w_longest) ==
    IF s.outage_open /\ s.consecutive_failures = 0
    THEN
        LET start_ts == OrElse(s.outage_start_ts, t)
            duration == t - start_ts
            jr1 == Append(jr, OutageLine(s.host, start_ts, t, s.outage_missed))
            isLongest == duration >= s.longest_outage_duration
            s1 == IF isLongest
                  THEN [s EXCEPT !.longest_outage_duration = duration,
                                 !.longest_outage_ts = Some(t)]
                  ELSE s
            jr2 == IF isLongest
                   THEN Append(jr1, LongestOutageLine(s.host, duration, t))
                   ELSE jr1
        IN  [stats |-> [s1 EXCEPT !.outage_open = FALSE,
                                  !.outage_start_ts = None,
                                  !.outage_missed = 0],
             journal |-> jr2, raised |-> FALSE]
    ELSE [stats |-> s, journal |-> jr, raised |-> FALSE]

\* maybe_close_outage logging consecutive_failures in place of outage_missed.
maybe_close_outage_logs_cf(s, jr, t, w_outage, w_longest) ==
    IF s.outage_open /\ s.consecutive_failures = 0
    THEN
        LET start_ts == OrElse(s.outage_start_ts, t)
            duration == t - start_ts
            jr1 == Append(jr, OutageLine(s.host, start_ts, t, s.consecutive_failures))
            isLongest == duration > s.longest_outage_duration
            s1 == IF isLongest
                  THEN [s EXCEPT !.longest_outage_duration = duration,
                                 !.longest_outage_ts = Some(t)]
                  ELSE s
            jr2 == IF isLongest
                   THEN Append(jr1, LongestOutageLine(s.host, duration, t))
                   ELSE jr1
        IN  [stats |-> [s1 EXCEPT !.outage_open = FALSE,
                                  !.outage_start_ts = None,
                                  !.outage_missed = 0],
             journal |-> jr2, raised |-> FALSE]
    ELSE [stats |-> s, journal |-> jr, raised |-> FALSE]

\* maybe_close_outage that does not clear outage_start_ts.
maybe_close_outage_keeps_start(s, jr, t, w_outage, w_longest) ==
    IF s.outage_open /\ s.consecutive_failures = 0
    THEN
        LET start_ts == OrElse(s.outage_start_ts, t)
            duration == t - start_ts
            jr1 == Append(jr, OutageLine(s.host, start_ts, t, s.outage_missed))
            isLongest == duration > s.longest_outage_duration
            s1 == IF isLongest
                  THEN [s EXCEPT !.longest_outage_duration = duration,
                                 !.longest_outage_ts = Some(t)]
                  ELSE s
            jr2 == IF isLongest
                   THEN Append(jr1, LongestOutageLine(s.host, duration, t))
                   ELSE jr1
        IN  [stats |-> [s1 EXCEPT !.outage_open = FALSE,
                                  !.outage_missed = 0],
             journal |-> jr2, raised |-> FALSE]
    ELSE [stats |-> s, journal |-> jr, raised |-> FALSE]

\* OutageLogger.maybe_close_outage(stats) at clock value t.  w_outage and
\* w_longest tell whether the write of log_outage and of log_longest_outage
\* succeeds; a failed write raises out of the call at that statement.
maybe_close_outage(s, jr, t, w_outage, w_longest) ==
    IF s.outage_open /\ s.consecutive_failures = 0
    THEN
        LET end_ts == t
            start_ts == OrElse(s.outage_start_ts, end_ts)
            duration == end_ts - start_ts
            jr1 == Append(jr, OutageLine(s.host, start_ts, end_ts, s.outage_missed))
            isLongest == duration > s.longest_outage_duration
            s1 == IF isLongest
                  THEN [s EXCEPT !.longest_outage_duration = duration,
                                 !.longest_outage_ts = Some(end_ts)]
                  ELSE s
            jr2 == IF isLongest
                   THEN Append(jr1, LongestOutageLine(s.host, duration, end_ts))
                   ELSE jr1
        IN  IF ~w_outage
            THEN [stats |-> s, journal |-> jr, raised |-> TRUE]
            ELSE IF isLongest /\ ~w_longest
            THEN [stats |-> s1, journal |-> jr1, raised |-> TRUE]
            ELSE [stats |-> [s1 EXCEPT !.outage_open = FALSE,
                                       !.outage_start_ts = None,
                                       !.outage_missed = 0],
                  journal |-> jr2, raised |-> FALSE]
    ELSE [stats |-> s, journal |-> jr, raised |-> FALSE]

\* finalize with the log_outage call written twice in the loop body.
RECURSIVE finalize_from_twice(_, _, _, _, _, _)
finalize_from_twice(st, jr, t, i, done, failAt) ==
    IF i > Len(SERVERS)
    THEN [journal |-> jr, raised |-> FALSE]
    ELSE LET s == st[SERVERS[i]]
             line == OutageLine(s.host, OrElse(s.outage_start_ts, t), t,
                                s.outage_missed)
         IN  IF s.outage_open
             THEN finalize_from_twice(st, Append(Append(jr, line), line),
                                      t, i + 1, done + 1, failAt)
             ELSE finalize_from_twice(st, jr, t, i + 1, done, failAt)

\* OutageLogger.finalize(stats_list): the loop over stats_list from index i
\* on, at the clock value t read once before the loop.  failAt is the number
\* of the log_outage call (counted from `done` + 1) whose write fails, 0
\* when every write succeeds.
RECURSIVE finalize_from(_, _, _, _, _, _)
finalize_from(st, jr, t, i, done, failAt) ==
    IF i > Len(SERVERS)
    THEN [journal |-> jr, raised |-> FALSE]
    ELSE LET s == st[SERVERS[i]]
         IN  IF s.outage_open
             THEN IF done + 1 = failAt
                  THEN [journal |-> jr, raised |-> TRUE]
                  ELSE finalize_from(st,
                          Append(jr, OutageLine(s.host,
                                      OrElse(s.outage_start_ts, t), t,
                                      s.outage_missed)),
                          t, i + 1, done + 1, failAt)
             ELSE finalize_from(st, jr, t, i + 1, done, failAt)

finalize(st, jr, t, failAt) == finalize_from(st, jr, t, 1, 0, failAt)

\* ---------------------------------------------------------------- inputs
\* Outcomes a probe hands to record_result: <<ok, rtt_ms, error>>.
Outcomes == { <<TRUE, Some(30), None>>, <<FALSE, None, Some("timeout")>> }

\* ping_host that parses the rtt of a failed ping as well.
ping_host_parses_failed(host, completes, returncode, rtt_match, loss100) ==
    IF ~completes
    THEN [host |-> host, ok |-> FALSE, rtt_ms |-> None, error |-> Some("timeout")]
    ELSE IF returncode = 0
    THEN [host |-> host, ok |-> TRUE, rtt_ms |-> rtt_match, error |-> None]
    ELSE [host |-> host, ok |-> FALSE, rtt_ms |-> rtt_match,
          error |-> Some(IF loss100 THEN "timeout" ELSE "unreachable")]

\* ping_host that reads the returncode of the killed process after a timeout.
ping_host_no_timeout_result(host, completes, returncode, rtt_match, loss100) ==
    IF returncode = 0
    THEN [host |-> host, ok |-> TRUE, rtt_ms |-> rtt_match, error |-> None]
    ELSE [host |-> host, ok |-> FALSE, rtt_ms |-> None,
          error |-> Some(IF loss100 THEN "timeout" ELSE "unreachable")]

\* ping_host after the subprocess was created: `completes` tells whether
\* proc.communicate() ends within the deadline of wait_for; returncode is
\* proc.returncode; rtt_match is the number PING_RTT_RE finds in the output
\* (None when it does not match); loss100 tells whether the output holds
\* "100% packet loss".  The value is the PingResult returned.
ping_host(host, completes, returncode, rtt_match, loss100) ==
    IF ~completes
    THEN [host |-> host, ok |-> FALSE, rtt_ms |-> None, error |-> Some("timeout")]
    ELSE IF returncode = 0
    THEN [host |-> host, ok |-> TRUE, rtt_ms |-> rtt_match, error |-> None]
    ELSE [host |-> host, ok |-> FALSE, rtt_ms |-> None,
          error |-> Some(IF loss100 THEN "timeout" ELSE "unreachable")]

\* exit codes of ping: replies received, no reply, other error
ReturnCodes == {0, 1, 2}

\* what PING_RTT_RE finds in the output, in ms, around the latency thresholds
RttMatches == {None, Some(59), Some(60), Some(149), Some(150)}

\* (res.ok, res.rtt_ms, res.error), the arguments ping_loop gives record_result
AsOutcome(res) == <<res.ok, res.rtt_ms, res.error>>

\* the outcomes ping_host can return
PingOutcomes ==
    { AsOutcome(ping_host(SERVERS[1], c, rc, m, l)) :
        c \in BOOLEAN, rc \in ReturnCodes, m \in RttMatches, l \in BOOLEAN }

\* the outcomes record_result is fed in SpecTracker: those of ping_host and
\* a failure without an error
AnyOutcomes == PingOutcomes \cup { <<FALSE, None, None>> }

\* ------------------------------------------------ single-file variant
\* deque(maxlen=PACKET_LOSS_WINDOW).append(x)
RecentAppend(w, x) ==
    IF Len(w) >= PACKET_LOSS_WINDOW
    THEN Append(SubSeq(w, 2, Len(w)), x)
    ELSE Append(w, x)

\* strftime('%H:%M:%S'): the second of the day
FormatClock(ts) == (ts \div TicksPerSecond) % 86400

\* check_and_rotate_log: above MAX_LOG_SIZE the file is rewritten as a
\* marker line followed by lines[-keep_lines:], keep_lines = int(len * 0.3);
\* lines[-0:] is the whole list.
check_and_rotate_log(lines) ==
    IF Len(lines) > MAX_LOG_SIZE
    THEN LET keep_lines == (Len(lines) * 3) \div 10
             kept == IF keep_lines = 0 THEN lines
                     ELSE SubSeq(lines, Len(lines) - keep_lines + 1, Len(lines))
         IN  <<[kind |-> "ROTATED"]>> \o kept
    ELSE lines

\* log_outage(server, start_time, end_time, count) of the single-file variant
simple_log_outage(lines, server, start_time, end_time, count) ==
    Append(check_and_rotate_log(lines),
           [ kind |-> "OUTAGE",
             stamp |-> FormatTs(end_time),
             server |-> server,
             start |-> FormatClock(start_time),
             end |-> FormatClock(end_time),
             duration |-> FormatDuration(end_time - start_time),
             count |-> count ])

\* init_stats(server) for every server, the log header written by main(),
\* the tasks created
InitSimple ==
    /\ sstats = [s \in Hosts |->
                   [ success |-> 0, failure |-> 0, consecutive_failures |-> 0,
                     last_latency |-> None, uptime_streak |-> 0,
                     recent_results |-> <<>> ]]
    /\ outage_state = [s \in Hosts |->
                   [ in_outage |-> FALSE, outage_start |-> None,
                     outage_count |-> 0 ]]
    /\ running = TRUE
    /\ slog = << [kind |-> "BLANK"], [kind |-> "RULE"],
                 [kind |-> "STARTED"], [kind |-> "RULE"] >>
    /\ mon = [at |-> "created", i |-> 1, round |-> 1]
    /\ mainpc = "waiting"

\* monitor_servers_sequential: the loop tests made when the task starts or
\* its sleep ends: `while running`, next server of the for loop,
\* `if not running: break`; then the ping is awaited
MonitorNext ==
    /\ mainpc = "waiting"
    /\ mon.at \in {"created", "sleep"}
    /\ IF ~running
       THEN mon' = [mon EXCEPT !.at = "returned"]
       ELSE IF mon.at = "created"
       THEN mon' = [mon EXCEPT !.at = "ping"]
       ELSE IF mon.i < Len(SERVERS)
       THEN mon' = [mon EXCEPT !.at = "ping", !.i = @ + 1]
       ELSE /\ mon.round < MaxRounds
            /\ mon' = [at |-> "ping", i |-> 1, round |-> mon.round + 1]
    /\ UNCHANGED <<now, pkgVars, sstats, outage_state, running, slog, mainpc>>

\* The loop body that does not count the failures after the threshold.
MonitorProbe_no_count ==
    /\ mainpc = "waiting"
    /\ mon.at = "ping"
    /\ \E latency \in {None, Some(30)} :
        LET server == SERVERS[mon.i]
            st == sstats[server]
            os == outage_state[server]
        IN
        IF latency # None
        THEN /\ sstats' = [sstats EXCEPT ![server] =
                   [st EXCEPT !.success = @ + 1,
                              !.consecutive_failures = 0,
                              !.last_latency = latency,
                              !.uptime_streak = @ + 1,
                              !.recent_results = RecentAppend(@, latency)]]
             /\ IF os.in_outage
                THEN /\ outage_state' = [outage_state EXCEPT
                                            ![server].in_outage = FALSE]
                     /\ slog' = simple_log_outage(slog, server,
                                    os.outage_start[1], now, os.outage_count)
                ELSE UNCHANGED <<outage_state, slog>>
        ELSE /\ sstats' = [sstats EXCEPT ![server] =
                   [st EXCEPT !.failure = @ + 1,
                              !.consecutive_failures = @ + 1,
                              !.uptime_streak = 0,
                              !.recent_results = RecentAppend(@, latency)]]
             /\ outage_state' = [outage_state EXCEPT ![server] =
                   IF st.consecutive_failures + 1 = OUTAGE_THRESHOLD
                   THEN [ in_outage |-> TRUE, outage_start |-> Some(now),
                          outage_count |-> OUTAGE_THRESHOLD ]
                   ELSE os]
             /\ UNCHANGED slog
    /\ mon' = [mon EXCEPT !.at = "sleep"]
    /\ UNCHANGED <<now, pkgVars, running, mainpc>>

\* monitor_servers_sequential: ping_server returns `latency`; the stats and
\* the outage state of the server are updated, an ended outage is logged,
\* and the task sleeps
MonitorProbe ==
    /\ mainpc = "waiting"
    /\ mon.at = "ping"
    /\ \E latency \in {None, Some(30)} :
        LET server == SERVERS[mon.i]
            st == sstats[server]
            os == outage_state[server]
        IN
        IF latency # None
        THEN /\ sstats' = [sstats EXCEPT ![server] =
                   [st EXCEPT !.success = @ + 1,
                              !.consecutive_failures = 0,
                              !.last_latency = latency,
                              !.uptime_streak = @ + 1,
                              !.recent_results = RecentAppend(@, latency)]]
             /\ IF os.in_outage
                THEN /\ outage_state' = [outage_state EXCEPT
                                            ![server].in_outage = FALSE]
                     /\ slog' = simple_log_outage(slog, server,
                                    os.outage_start[1], now, os.outage_count)
                ELSE UNCHANGED <<outage_state, slog>>
        ELSE /\ sstats' = [sstats EXCEPT ![server] =
                   [st EXCEPT !.failure = @ + 1,
                              !.consecutive_failures = @ + 1,
                              !.uptime_streak = 0,
                              !.recent_results = RecentAppend(@, latency)]]
             /\ outage_state' = [outage_state EXCEPT ![server] =
                   IF st.consecutive_failures + 1 = OUTAGE_THRESHOLD
                   THEN [ in_outage |-> TRUE, outage_start |-> Some(now),
                          outage_count |-> OUTAGE_THRESHOLD ]
                   ELSE IF os.in_outage
                   THEN [os EXCEPT !.outage_count = @ + 1]
                   ELSE os]
             /\ UNCHANGED slog
    /\ mon' = [mon EXCEPT !.at = "sleep"]
    /\ UNCHANGED <<now, pkgVars, running, mainpc>>

\* signal_handler: the first SIGINT clears `running`, a further one exits
SignalHandler ==
    /\ mainpc = "waiting"
    /\ IF running
       THEN running' = FALSE /\ UNCHANGED mainpc
       ELSE mainpc' = "exited" /\ UNCHANGED running
    /\ UNCHANGED <<now, pkgVars, sstats, outage_state, slog, mon>>

\* main(): `while running` ends; every task is cancelled and gathered, the
\* summary is printed and the process ends
MainShutdown ==
    /\ mainpc = "waiting"
    /\ ~running
    /\ mon' = [mon EXCEPT !.at = IF @ = "returned" THEN @ ELSE "cancelled"]
    /\ mainpc' = "done"
    /\ UNCHANGED <<now, pkgVars, sstats, outage_state, running, slog>>

\* GlobalStats(): the fields main.py reads and writes
NewGlobalStats ==
    [ uptime_start_ts |-> None,
      longest_uptime |-> 0,
      longest_uptime_ts |-> None,
      outage_start_ts |-> None,
      longest_outage |-> 0,
      longest_outage_ts |-> None ]

\* OutageLogger.log_outage_start(ts): the line appended for the aggregate
GlobalOutageStartLine(ts) ==
    [ kind |-> "OUTAGE_OPEN", host |-> "GLOBAL", ts_str |-> FormatTs(ts) ]

\* OutageLogger.log_outage_end(start_ts, end_ts): the line appended for the
\* aggregate
GlobalOutageEndLine(start_ts, end_ts) ==
    [ kind |-> "OUTAGE_CLOSE", host |-> "GLOBAL",
      start_str |-> FormatTs(start_ts),
      end_str |-> FormatTs(end_ts),
      duration |-> FormatDuration(end_ts - start_ts) ]

\* all(s.consecutive_failures > 0 for s in stats_map.values())
all_hosts_down(st) == \A h \in Hosts : st[h].consecutive_failures > 0

\* One pass of the loop body of stats_aggregator at clock value t, on
\* global_stats g, stats_map st and the journal jr.  The calls
\* log_longest_uptime(duration, now) and log_longest_outage(duration, now)
\* give two arguments to methods that take (host, duration, ts): they raise
\* TypeError and the pass ends there.
stats_aggregator_pass(g, st, jr, t) ==
    LET down == all_hosts_down(st)
        upDuration == t - g.uptime_start_ts[1]
        upRaises == /\ down
                    /\ g.uptime_start_ts # None
                    /\ upDuration > g.longest_uptime
        g1 == IF down
              THEN IF g.uptime_start_ts # None
                   THEN IF upDuration > g.longest_uptime
                        THEN [g EXCEPT !.longest_uptime = upDuration,
                                       !.longest_uptime_ts = Some(t)]
                        ELSE [g EXCEPT !.uptime_start_ts = None]
                   ELSE g
              ELSE IF g.uptime_start_ts = None
                   THEN [g EXCEPT !.uptime_start_ts = Some(t)]
                   ELSE g
        outDuration == t - g1.outage_start_ts[1]
    IN  IF upRaises
        THEN [gstats |-> g1, journal |-> jr, raised |-> TRUE]
        ELSE IF down
        THEN IF g1.outage_start_ts = None
             THEN [gstats |-> [g1 EXCEPT !.outage_start_ts = Some(t)],
                   journal |-> Append(jr, GlobalOutageStartLine(t)),
                   raised |-> FALSE]
             ELSE [gstats |-> g1, journal |-> jr, raised |-> FALSE]
        ELSE IF g1.outage_start_ts # None
        THEN LET jr1 == Append(jr, GlobalOutageEndLine(g1.outage_start_ts[1], t))
             IN  IF outDuration > g1.longest_outage
                 THEN [gstats |-> [g1 EXCEPT !.longest_outage = outDuration,
                                             !.longest_outage_ts = Some(t)],
                       journal |-> jr1, raised |-> TRUE]
                 ELSE [gstats |-> [g1 EXCEPT !.outage_start_ts = None],
                       journal |-> jr1, raised |-> FALSE]
        ELSE [gstats |-> g1, journal |-> jr, raised |-> FALSE]

\* main_async: the event, global_stats and the tasks created.  Of a
\* ping_loop: pc, where the task stands; deadline, when wait_for gives up;
\* res, the last PingResult; and as history: inflight, whether a created
\* subprocess has given no result yet; expired, whether the last result came
\* from the timeout of wait_for; started, the subprocesses created; refused,
\* the probes whose subprocess could not be created.
InitMain ==
    /\ ploop = [h \in Hosts |->
                  [pc |-> "created", deadline |-> 0, inflight |-> FALSE,
                   res |-> None, expired |-> FALSE, started |-> 0,
                   refused |-> 0]]
    /\ stop_event = FALSE
    /\ gstats = NewGlobalStats
    /\ agg = "created"
    /\ amain = "waiting"

\* ------------------------------------------------------------------- Init
Init ==
    /\ now = 1
    /\ stats = [h \in Hosts |-> NewServerStats(h)]
    /\ journal = <<>>
    /\ hist = [h \in Hosts |-> <<>>]
    /\ run = [startOpen |-> FALSE, skipped |-> FALSE,
              pendingOpen |-> FALSE, pendingClose |-> FALSE]
    /\ closed = [h \in Hosts |-> <<>>]
    /\ finalize_calls = 0
    /\ raised = FALSE
    /\ fed = [h \in Hosts |-> None]
    /\ streaks = [h \in Hosts |-> [from |-> None, ended |-> <<>>, signals |-> <<>>]]
    /\ logfile = [mtime |-> None, renamed |-> <<>>]
    /\ cpu = "idle"
    /\ mid = [h \in Hosts |-> None]
    /\ obs = [task |-> "none", whole |-> TRUE]
    /\ InitMain
    /\ InitSimple

\* ---------------------------------------------------------------- actions
\* time passes
Tick ==
    /\ now < MaxTime
    /\ now' = now + 1
    /\ UNCHANGED <<pkgVars, simpleVars>>

\* The tracker of Spec and SpecIO.
Tracked == SERVERS[1]

\* stats.record_result(o.ok, o.rtt_ms, o.error) for host h, the outcome o
\* drawn from outs.  `watched` tells whether the history `run` follows the
\* call (it does for the calls on Tracked in Spec and SpecIO).  run is
\* restarted by the first failure of a failure run; it notes whether the
\* outage was already open then, whether some result of the run was followed
\* by the next result without a maybe_open_outage between, and which of
\* maybe_open_outage and maybe_close_outage has not returned since the last
\* result.
RecordCall(h, limit, watched, outs) ==
    /\ Len(hist[h]) < limit
    /\ \E o \in outs :
        /\ stats' = [stats EXCEPT ![h] = record_result(@, o[1], o[2], o[3], now)]
        /\ hist' = [hist EXCEPT ![h] = Append(@, o[1])]
        /\ fed' = [fed EXCEPT ![h] = Some(o)]
        /\ run' = IF ~watched THEN run
                   ELSE IF ~o[1] /\ stats[h].consecutive_failures = 0
                   THEN [startOpen |-> stats[h].outage_open,
                         skipped |-> FALSE,
                         pendingOpen |-> TRUE, pendingClose |-> TRUE]
                   ELSE [run EXCEPT !.skipped = @ \/ run.pendingOpen,
                                    !.pendingOpen = TRUE,
                                    !.pendingClose = TRUE]
    /\ raised' = FALSE
    /\ UNCHANGED <<now, journal, closed, finalize_calls, mainVars, sideVars, simpleVars>>

\* record_result fed with one of Outcomes
RecordResult(h, limit, watched) ==
    /\ RecordCall(h, limit, watched, Outcomes)
    /\ UNCHANGED streaks

\* The history of uptime streaks after the call of record_result on h made
\* by the step: `from` is the time of the first success of the run of
\* successes that the last outcome belongs to, `ended` the durations of the
\* runs of successes that a failure has ended, `signals` the value of
\* longest_uptime_streak after each call that left
\* new_longest_uptime_recorded true.
StreaksAfter(h) ==
    LET ok == hist'[h][Len(hist'[h])]
        prevOk == hist[h] # <<>> /\ hist[h][Len(hist[h])]
        s == streaks[h]
        s1 == IF ok
              THEN [s EXCEPT !.from = IF prevOk THEN @ ELSE Some(now)]
              ELSE IF prevOk
              THEN [s EXCEPT !.from = None,
                             !.ended = Append(@, now - s.from[1])]
              ELSE s
    IN  [s1 EXCEPT !.signals =
            IF stats'[h].new_longest_uptime_recorded
            THEN Append(@, stats'[h].longest_uptime_streak)
            ELSE @]

\* record_result fed with any outcome of AnyOutcomes, the uptime streaks followed
RecordAny(h) ==
    /\ RecordCall(h, MaxTrackerProbes, FALSE, AnyOutcomes)
    /\ streaks' = [streaks EXCEPT ![h] = StreaksAfter(h)]

\* outage_logger.maybe_open_outage(stats_map[h])
MaybeOpenOutage(h, watched) ==
    /\ stats' = [stats EXCEPT ![h] = maybe_open_outage(@, now)]
    /\ run' = IF watched THEN [run EXCEPT !.pendingOpen = FALSE] ELSE run
    /\ raised' = FALSE
    /\ UNCHANGED <<now, journal, hist, closed, finalize_calls, fed, streaks,
                   mainVars, sideVars, simpleVars>>

\* outage_logger.maybe_close_outage(stats_map[h]) with the given write outcomes
CloseOutage(h, w_outage, w_longest, watched) ==
    LET r == maybe_close_outage(stats[h], journal, now, w_outage, w_longest)
    IN  /\ stats' = [stats EXCEPT ![h] = r.stats]
        /\ journal' = r.journal
        /\ raised' = r.raised
        /\ run' = IF watched
                   THEN [run EXCEPT !.pendingClose = @ /\ r.raised]
                   ELSE run
        /\ closed' = IF stats[h].outage_open /\ ~r.stats.outage_open
                     THEN [closed EXCEPT ![h] =
                             Append(@, now - stats[h].outage_start_ts[1])]
                     ELSE closed
        /\ UNCHANGED <<now, hist, finalize_calls, fed, streaks,
                       mainVars, sideVars, simpleVars>>

\* maybe_close_outage, every journal write succeeding
MaybeCloseOutage(h, watched) == CloseOutage(h, TRUE, TRUE, watched)

\* outage_logger.finalize(stats_map.values()), every journal write succeeding
Finalize ==
    /\ finalize_calls < MaxFinalize
    /\ LET r == finalize(stats, journal, now, 0)
       IN  /\ journal' = r.journal
           /\ raised' = r.raised
    /\ finalize_calls' = finalize_calls + 1
    /\ UNCHANGED <<now, stats, hist, run, closed, fed, streaks,
                   mainVars, sideVars, simpleVars>>

\* ------------------------------------------------------- specifications
\* One tracker and one logger driven by arbitrary calls, as in
\* tests/test_latency_and_outages.py; journal writes succeed.

Next ==
    \/ Tick
    \/ RecordResult(Tracked, MaxProbes, TRUE)
    \/ MaybeOpenOutage(Tracked, TRUE)
    \/ MaybeCloseOutage(Tracked, TRUE)

Spec == Init /\ [][Next]_vars

\* Every tracker of stats_map driven by arbitrary calls; journal writes succeed.
NextFleet ==
    \/ Tick
    \/ \E h \in Hosts : RecordResult(h, MaxFleetProbes, FALSE)
    \/ \E h \in Hosts : MaybeOpenOutage(h, FALSE)
    \/ \E h \in Hosts : MaybeCloseOutage(h, FALSE)
    \/ Finalize

SpecFleet == Init /\ [][NextFleet]_vars

\* One tracker through whole outages, with the finalize of the shutdown;
\* journal writes succeed.
NextLife ==
    \/ Tick
    \/ RecordResult(Tracked, MaxTrackerProbes, FALSE)
    \/ MaybeOpenOutage(Tracked, FALSE)
    \/ MaybeCloseOutage(Tracked, FALSE)
    \/ Finalize

SpecLife == Init /\ [][NextLife]_vars

\* One tracker fed with every kind of outcome, its uptime streaks followed.
TrackerTick ==
    /\ now < MaxTrackerTime
    /\ now' = now + 1
    /\ UNCHANGED <<pkgVars, simpleVars>>

NextTracker ==
    \/ TrackerTick
    \/ RecordAny(Tracked)
    \/ MaybeOpenOutage(Tracked, FALSE)
    \/ MaybeCloseOutage(Tracked, FALSE)

SpecTracker == Init /\ [][NextTracker]_vars

\* ------------------------------------------------------ the tasks of main.py
\* what PING_RTT_RE finds in the output of the probes of SpecMain
MainRttMatches == {None, Some(30)}

\* the variables the steps of the tasks of main.py leave alone
mainFrame == <<run, closed, finalize_calls, streaks, sideVars, simpleVars>>

\* the probes started by the ping_loop tasks of SERVERS[i..]
RECURSIVE ProbesStarted(_)
ProbesStarted(i) ==
    IF i > Len(SERVERS) THEN 0
    ELSE ploop[SERVERS[i]].started + ploop[SERVERS[i]].refused + ProbesStarted(i + 1)

\* ping_loop(h): the task starts or its sleep ends and finds stop_event
\* set: `while not stop_event.is_set()` ends the loop and the task returns
PingLoopEnds(h) ==
    /\ amain = "waiting"
    /\ ploop[h].pc \in {"created", "sleep"}
    /\ stop_event
    /\ ploop' = [ploop EXCEPT ![h].pc = "returned"]
    /\ UNCHANGED <<now, stats, journal, hist, fed, raised, stop_event, gstats,
                   agg, amain, mainFrame>>

\* ping_loop(h): the task starts or its sleep ends, stop_event is not set
\* and ping_host is entered.  A probe is started only while the clock can
\* still reach its deadline.
PingEntered(h) ==
    /\ amain = "waiting"
    /\ ploop[h].pc \in {"created", "sleep"}
    /\ ~stop_event
    /\ ProbesStarted(1) < MaxMainProbes
    /\ now + PING_DEADLINE <= MaxTime

\* ping_host: create_subprocess_exec returns the process; wait_for starts
\* with the deadline timeout + 0.5
PingLaunch(h) ==
    /\ PingEntered(h)
    /\ ploop' = [ploop EXCEPT ![h].pc = "wait",
                              ![h].deadline = now + PING_DEADLINE,
                              ![h].inflight = TRUE,
                              ![h].started = @ + 1]
    /\ UNCHANGED <<now, stats, journal, hist, fed, raised, stop_event, gstats,
                   agg, amain, mainFrame>>

\* ping_host: create_subprocess_exec raises (OSError: no ping executable,
\* no file descriptor or process left).  Neither ping_host nor ping_loop
\* catches it: the task ends with the exception.
PingLaunchFails(h) ==
    /\ PingEntered(h)
    /\ ploop' = [ploop EXCEPT ![h].pc = "raised", ![h].refused = @ + 1]
    /\ raised' = TRUE
    /\ UNCHANGED <<now, stats, journal, hist, fed, stop_event, gstats,
                   agg, amain, mainFrame>>

\* ping_loop(h): ping_host returns res; stats.record_result(res.ok,
\* res.rtt_ms, res.error) follows without an await, then the task sleeps
PingReturns(h, res, expired) ==
    /\ stats' = [stats EXCEPT ![h] =
                    record_result(@, res.ok, res.rtt_ms, res.error, now)]
    /\ hist' = [hist EXCEPT ![h] = Append(@, res.ok)]
    /\ fed' = [fed EXCEPT ![h] = Some(AsOutcome(res))]
    /\ ploop' = [ploop EXCEPT ![h].pc = "sleep",
                              ![h].inflight = FALSE,
                              ![h].res = Some(res),
                              ![h].expired = expired]
    /\ raised' = FALSE
    /\ UNCHANGED <<now, journal, stop_event, gstats, agg, amain, mainFrame>>

\* ping_host: proc.communicate() ends within the deadline
PingCompletes(h) ==
    /\ amain = "waiting"
    /\ ploop[h].pc = "wait"
    /\ now <= ploop[h].deadline
    /\ \E rc \in ReturnCodes, m \in MainRttMatches, l \in BOOLEAN :
          PingReturns(h, ping_host(h, TRUE, rc, m, l), FALSE)

\* ping_host: the deadline of wait_for passes first: asyncio.TimeoutError,
\* the process is killed
PingTimesOut(h) ==
    /\ amain = "waiting"
    /\ ploop[h].pc = "wait"
    /\ now >= ploop[h].deadline
    /\ PingReturns(h, ping_host(h, FALSE, 0, None, FALSE), TRUE)

\* stats_aggregator: the task starts or its sleep of 0.1 s ends; `while not
\* stop_event.is_set()` is tested and one pass of the body runs
StatsAggregator ==
    /\ amain = "waiting"
    /\ agg \in {"created", "sleep"}
    /\ IF stop_event
       THEN /\ agg' = "returned"
            /\ UNCHANGED <<gstats, journal, raised>>
       ELSE LET r == stats_aggregator_pass(gstats, stats, journal, now)
            IN  /\ gstats' = r.gstats
                /\ journal' = r.journal
                /\ raised' = r.raised
                /\ agg' = IF r.raised THEN "raised" ELSE "sleep"
    /\ UNCHANGED <<now, stats, hist, fed, ploop, stop_event, amain, mainFrame>>

\* _signal_handler: SIGINT or SIGTERM sets stop_event
MainSignal ==
    /\ amain = "waiting"
    /\ ~stop_event
    /\ stop_event' = TRUE
    /\ UNCHANGED <<now, stats, journal, hist, fed, raised, ploop, gstats,
                   agg, amain, mainFrame>>

\* main_async after stop_event.wait(): every task is cancelled and gathered
\* (a task that has not ended gets CancelledError at its await), the end of
\* an open global outage is logged, the summary is printed
MainShutdownAsync ==
    /\ amain = "waiting"
    /\ stop_event
    /\ ploop' = [h \in Hosts |->
                   [ploop[h] EXCEPT !.pc = IF @ \in {"returned", "raised"}
                                           THEN @ ELSE "cancelled"]]
    /\ agg' = IF agg \in {"returned", "raised"} THEN agg ELSE "cancelled"
    /\ journal' = IF gstats.outage_start_ts # None
                  THEN Append(journal,
                          GlobalOutageEndLine(gstats.outage_start_ts[1], now))
                  ELSE journal
    /\ amain' = "done"
    /\ raised' = FALSE
    /\ UNCHANGED <<now, stats, hist, fed, stop_event, gstats, mainFrame>>

\* the clock while main_async runs
MainTick ==
    /\ amain = "waiting"
    /\ Tick

\* The ping_loop tasks of main_async, the signal and the shutdown.
NextProbes ==
    \/ MainTick
    \/ \E h \in Hosts : PingLoopEnds(h)
    \/ \E h \in Hosts : PingLaunch(h)
    \/ \E h \in Hosts : PingLaunchFails(h)
    \/ \E h \in Hosts : PingCompletes(h)
    \/ \E h \in Hosts : PingTimesOut(h)
    \/ MainSignal
    \/ MainShutdownAsync

SpecProbes == Init /\ [][NextProbes]_vars

\* Time passes while main_async runs, and the event loop fires the timer of
\* wait_for once its deadline is reached.
SpecProbesFair ==
    /\ SpecProbes
    /\ WF_vars(MainTick)
    /\ \A h \in Hosts : WF_vars(PingTimesOut(h))

\* The ping_loop tasks and the stats_aggregator task of main_async.
NextMain ==
    \/ NextProbes
    \/ StatsAggregator

SpecMain == Init /\ [][NextMain]_vars

\* maybe_close_outage during which a journal write fails (OSError from
\* open or write): the exception leaves the call at log_outage or at
\* log_longest_outage.
MaybeCloseOutageWriteFails(h) ==
    \E w \in {<<FALSE, TRUE>>, <<TRUE, FALSE>>} :
        /\ maybe_close_outage(stats[h], journal, now, w[1], w[2]).raised
        /\ CloseOutage(h, w[1], w[2], TRUE)

\* finalize during which the k-th journal write fails
FinalizeWriteFails ==
    /\ finalize_calls < MaxFinalize
    /\ \E k \in 1..Len(SERVERS) :
          LET r == finalize(stats, journal, now, k)
          IN  /\ r.raised
              /\ journal' = r.journal
              /\ raised' = r.raised
    /\ finalize_calls' = finalize_calls + 1
    /\ UNCHANGED <<now, stats, hist, run, closed, fed, streaks,
                   mainVars, sideVars, simpleVars>>

\* The single tracker of Spec with a journal whose writes can fail.
NextIO ==
    \/ Tick
    \/ RecordResult(Tracked, MaxProbes, TRUE)
    \/ MaybeOpenOutage(Tracked, TRUE)
    \/ MaybeCloseOutage(Tracked, TRUE)
    \/ Finalize
    \/ MaybeCloseOutageWriteFails(Tracked)
    \/ FinalizeWriteFails

SpecIO == Init /\ [][NextIO]_vars

\* --------------------------------------------------- rotation of the log
\* The age above which _maybe_rotate_log renames the file (90 days in the
\* code), in ticks.
ROTATE_AGE == 1

\* OutageLogger._maybe_rotate_log at clock value t.  jr is the content of the
\* file at self.path, lf.mtime its modification time (None: no such file),
\* lf.renamed the files renamed so far.  os.path.getmtime raises
\* FileNotFoundError when the file does not exist, which is caught; rename_ok
\* tells whether os.rename succeeds, and its OSError (PermissionError, ...)
\* is not caught.
maybe_rotate_log(jr, lf, t, rename_ok) ==
    IF lf.mtime = None
    THEN [journal |-> jr, logfile |-> lf, raised |-> FALSE]
    ELSE IF t - lf.mtime[1] > ROTATE_AGE
    THEN IF rename_ok
         THEN [journal |-> <<>>,
               logfile |-> [mtime |-> None, renamed |-> Append(lf.renamed, jr)],
               raised |-> FALSE]
         ELSE [journal |-> jr, logfile |-> lf, raised |-> TRUE]
    ELSE [journal |-> jr, logfile |-> lf, raised |-> FALSE]

\* OutageLogger._open: _maybe_rotate_log, then open(self.path, "a"), which
\* creates the file when it does not exist.  The lines written through the
\* returned file are appended to .journal.
open_log(jr, lf, t, rename_ok) ==
    LET r == maybe_rotate_log(jr, lf, t, rename_ok)
    IN  IF r.raised
        THEN r
        ELSE [r EXCEPT !.logfile.mtime = Some(t)]

\* whether _maybe_rotate_log would rename the file now
RotationDue == logfile.mtime # None /\ now - logfile.mtime[1] > ROTATE_AGE

\* outage_logger.maybe_close_outage(stats_map[h]) on the file on disk.  The
\* first write of the call goes through _open, which may rotate; the file
\* then has the mtime of this write, so the _open of log_longest_outage in
\* the same call does not rotate.
CloseOutageRotating(h, rename_ok) ==
    LET writes == stats[h].outage_open /\ stats[h].consecutive_failures = 0
        o == open_log(journal, logfile, now, rename_ok)
        r == maybe_close_outage(stats[h], o.journal, now, TRUE, TRUE)
    IN  /\ ~rename_ok => writes /\ RotationDue
        /\ IF writes /\ o.raised
           THEN /\ raised' = TRUE
                /\ UNCHANGED <<stats, journal, logfile, closed>>
           ELSE /\ stats' = [stats EXCEPT ![h] = r.stats]
                /\ journal' = r.journal
                /\ logfile' = IF writes THEN o.logfile ELSE logfile
                /\ raised' = r.raised
                /\ closed' = IF stats[h].outage_open /\ ~r.stats.outage_open
                             THEN [closed EXCEPT ![h] =
                                     Append(@, now - stats[h].outage_start_ts[1])]
                             ELSE closed
        /\ UNCHANGED <<now, hist, run, finalize_calls, fed, streaks,
                       mainVars, cpu, mid, obs, simpleVars>>

\* maybe_close_outage in whose _open the rename of the old file fails
CloseOutageRenameFails(h) ==
    /\ RotationDue
    /\ CloseOutageRotating(h, FALSE)

\* One tracker and one logger whose file ages and is rotated.
NextRotate ==
    \/ Tick
    \/ RecordResult(Tracked, MaxProbes, FALSE)
    \/ MaybeOpenOutage(Tracked, FALSE)
    \/ CloseOutageRotating(Tracked, TRUE)
    \/ CloseOutageRenameFails(Tracked)

SpecRotate == Init /\ [][NextRotate]_vars

\* The single-file variant: its monitor task, the signal and the shutdown of main().
SimpleTick ==
    /\ mainpc = "waiting"
    /\ Tick

NextSimple ==
    \/ SimpleTick
    \/ MonitorNext
    \/ MonitorProbe
    \/ SignalHandler
    \/ MainShutdown

SpecSimple == Init /\ [][NextSimple]_vars

TypeOK ==
    /\ now \in Nat /\ now >= 1
    /\ finalize_calls \in 0..MaxFinalize
    /\ raised \in BOOLEAN
    /\ \A h \in Hosts : stats[h].host = h

\* ---------------------------------------------------- auxiliary operators
\* the lines of kind k that the journal jr holds for host h
LinesOf(jr, h, k) == {i \in 1..Len(jr) : jr[i].host = h /\ jr[i].kind = k}

\* the lines appended to the journal by the step
Added == SubSeq(journal', Len(journal) + 1, Len(journal'))

\* the step only appends to the journal
AppendOnly == Len(journal') >= Len(journal)
              /\ SubSeq(journal', 1, Len(journal)) = journal

\* length of the trailing run of failures of a sequence of outcomes
RECURSIVE TrailingFailures(_)
TrailingFailures(o) ==
    IF o = <<>> \/ o[Len(o)] THEN 0
    ELSE 1 + TrailingFailures(SubSeq(o, 1, Len(o) - 1))

\* the largest element of a sequence of naturals, 0 when empty
RECURSIVE MaxOf(_)
MaxOf(d) ==
    IF d = <<>> THEN 0
    ELSE LET m == MaxOf(SubSeq(d, 1, Len(d) - 1))
         IN  IF d[Len(d)] > m THEN d[Len(d)] ELSE m

Min(a, b) == IF a < b THEN a ELSE b

\* the last n elements of a sequence
LastN(o, n) == SubSeq(o, Len(o) - n + 1, Len(o))

\* ------------------------------------------- the event loop, by statement
\* The tasks of main_async run on one asyncio event loop: a task that has
\* been resumed keeps the loop until it reaches its next await.  Here
\* record_result is followed in two parts, the statements up to the
\* assignment of consecutive_failures and the rest, to see what the other
\* tasks can find between the two.

\* the probes recorded by all hosts together in SpecAtomic
MaxAtomicProbes == 5

\* Whether record_result gives the loop back between its statements: it is a
\* plain method (def, no await in its body), so it does not.
record_result_yields_midway == TRUE
record_result_yields == FALSE

\* ServerStats.record_result: the state after the statements up to the
\* assignment of consecutive_failures (stats.py:42-46 on success, 42-67 on
\* failure)
record_result_head(s, ok, t) ==
    LET full == record_result(s, ok, None, None, t)
    IN  IF ok
        THEN [s EXCEPT !.new_longest_uptime_recorded = FALSE,
                       !.success_count = full.success_count,
                       !.consecutive_failures = full.consecutive_failures]
        ELSE [s EXCEPT !.new_longest_uptime_recorded =
                            full.new_longest_uptime_recorded,
                       !.longest_uptime_streak = full.longest_uptime_streak,
                       !.longest_uptime_streak_ts = full.longest_uptime_streak_ts,
                       !.failure_count = full.failure_count,
                       !.consecutive_failures = full.consecutive_failures]

\* the tracker of h is in the state a completed sequence of record_result
\* calls leaves: its counters, its streak of failures and its uptime streak
\* agree with the outcomes recorded
Whole(h) ==
    LET s == stats[h]
        o == hist[h]
    IN  /\ s.success_count + s.failure_count = Len(o)
        /\ s.consecutive_failures = TrailingFailures(o)
        /\ Len(s.window_results) = Min(Len(o), ROLLING_WINDOW)
        /\ (s.uptime_start_time # None) <=> (o # <<>> /\ o[Len(o)])
        /\ (s.last_error = None) <=> (o = <<>> \/ o[Len(o)])

AtomicProbes == Len(hist[SERVERS[1]]) + Len(hist[SERVERS[2]])

\* ping_loop of h is resumed with the result of ping_host and enters
\* record_result (main.py:26-27)
RecordBegin(h) ==
    /\ cpu = "idle"
    /\ mid[h] = None
    /\ AtomicProbes < MaxAtomicProbes
    /\ \E o \in Outcomes :
        /\ stats' = [stats EXCEPT ![h] = record_result_head(@, o[1], now)]
        /\ hist' = [hist EXCEPT ![h] = Append(@, o[1])]
        /\ fed' = [fed EXCEPT ![h] = Some(o)]
        /\ mid' = [mid EXCEPT ![h] = Some([pre |-> stats[h], t |-> now])]
    /\ cpu' = IF record_result_yields THEN "idle" ELSE h
    /\ raised' = FALSE
    /\ UNCHANGED <<now, journal, run, closed, finalize_calls, streaks,
                   mainVars, logfile, obs, simpleVars>>

\* the rest of record_result, up to the await of asyncio.sleep (main.py:28)
RecordFinish(h) ==
    /\ mid[h] # None
    /\ cpu \in {h, "idle"}
    /\ LET c == mid[h][1]
           o == fed[h][1]
       IN  stats' = [stats EXCEPT ![h] =
                        [record_result(c.pre, o[1], o[2], o[3], c.t) EXCEPT
                            !.outage_open = stats[h].outage_open,
                            !.outage_start_ts = stats[h].outage_start_ts,
                            !.outage_missed = stats[h].outage_missed,
                            !.longest_outage_duration = stats[h].longest_outage_duration,
                            !.longest_outage_ts = stats[h].longest_outage_ts]]
    /\ mid' = [mid EXCEPT ![h] = None]
    /\ cpu' = "idle"
    /\ UNCHANGED <<now, journal, hist, run, closed, finalize_calls, raised, fed,
                   streaks, mainVars, logfile, obs, simpleVars>>

\* a reconciliation pass over h between two awaits: maybe_open_outage, then
\* maybe_close_outage, each deciding on consecutive_failures and outage_open
Reconcile(h) ==
    /\ cpu = "idle"
    /\ LET s1 == maybe_open_outage(stats[h], now)
           r == maybe_close_outage(s1, journal, now, TRUE, TRUE)
       IN  /\ stats' = [stats EXCEPT ![h] = r.stats]
           /\ journal' = r.journal
           /\ closed' = IF s1.outage_open /\ ~r.stats.outage_open
                        THEN [closed EXCEPT ![h] =
                                Append(@, now - s1.outage_start_ts[1])]
                        ELSE closed
    /\ obs' = [task |-> "reconcile", whole |-> Whole(h)]
    /\ raised' = FALSE
    /\ UNCHANGED <<now, hist, run, finalize_calls, fed, streaks,
                   mainVars, logfile, cpu, mid, simpleVars>>

\* stats_aggregator reads consecutive_failures of every host (main.py:43);
\* ui_loop reads every tracker in build_table (main.py:92)
Observe(task) ==
    /\ cpu = "idle"
    /\ obs' = [task |-> task, whole |-> \A h \in Hosts : Whole(h)]
    /\ UNCHANGED <<now, stats, journal, hist, run, closed, finalize_calls,
                   raised, fed, streaks, mainVars, logfile, cpu, mid,
                   simpleVars>>

AtomicTick ==
    /\ cpu = "idle"
    /\ Tick

NextAtomic ==
    \/ AtomicTick
    \/ \E h \in Hosts : RecordBegin(h)
    \/ \E h \in Hosts : RecordFinish(h)
    \/ \E h \in Hosts : Reconcile(h)
    \/ Observe("stats_aggregator")
    \/ Observe("ui_loop")

SpecAtomic == Init /\ [][NextAtomic]_vars

\* ------------------------------------------------------------------ claims

\* C1 (as stated): in every reachable state, under any interleaving of
\* record_result, maybe_open_outage and maybe_close_outage, outage_open
\* implies consecutive_failures >= CONSECUTIVE_FAILURES_FOR_OUTAGE, and
\* consecutive_failures = 0 implies that no outage is open.
C1_Original ==
    \A h \in Hosts :
        /\ stats[h].outage_open =>
              stats[h].consecutive_failures >= CONSECUTIVE_FAILURES_FOR_OUTAGE
        /\ stats[h].consecutive_failures = 0 => ~stats[h].outage_open

\* C1 (amended): an open outage was opened at a moment when
\* consecutive_failures had reached the threshold (outage_missed, the value
\* of consecutive_failures stored at opening, is >= the threshold and at
\* most failure_count); consecutive_failures = 0 implies no open outage in
\* the states where maybe_close_outage has returned since the last
\* record_result.  Between a record_result and that maybe_close_outage,
\* consecutive_failures of an open outage can be anything, 0 included.
C1_OpenedAtThreshold ==
    /\ \A h \in Hosts :
          stats[h].outage_open =>
              /\ stats[h].outage_missed >= CONSECUTIVE_FAILURES_FOR_OUTAGE
              /\ stats[h].outage_missed <= stats[h].failure_count
              /\ stats[h].outage_start_ts # None
    /\ (stats[Tracked].consecutive_failures = 0 /\ ~run.pendingClose)
          => ~stats[Tracked].outage_open

\* C1 witness: an outage is open while a success has already reset the counter.
C1_Witness ==
    /\ stats[Tracked].outage_open
    /\ stats[Tracked].consecutive_failures = 0
    /\ run.pendingClose

\* C2: once maybe_open_outage (maybe_close_outage) has returned since the
\* last record_result, a further call of it opens (closes) nothing, and once
\* both have returned no call changes the tracker or appends a line for it.
C2_Idempotent ==
    [][ (hist'[Tracked] = hist[Tracked] /\ finalize_calls' = finalize_calls) =>
          /\ ~run.pendingOpen =>
                ~(~stats[Tracked].outage_open /\ stats'[Tracked].outage_open)
          /\ ~run.pendingClose =>
                /\ ~(stats[Tracked].outage_open /\ ~stats'[Tracked].outage_open)
                /\ LinesOf(journal', Tracked, "OUTAGE") = LinesOf(journal, Tracked, "OUTAGE")
                /\ LinesOf(journal', Tracked, "LONGEST_OUTAGE")
                      = LinesOf(journal, Tracked, "LONGEST_OUTAGE")
                /\ stats'[Tracked].longest_outage_duration
                      = stats[Tracked].longest_outage_duration
          /\ (~run.pendingOpen /\ ~run.pendingClose) =>
                /\ stats'[Tracked] = stats[Tracked]
                /\ journal' = journal
      ]_vars

\* C2 witness: an outage was closed and logged, and both reconciliation calls
\* have returned since the last result.
C2_Witness ==
    /\ ~run.pendingOpen /\ ~run.pendingClose
    /\ closed[Tracked] # <<>>
    /\ LinesOf(journal, Tracked, "OUTAGE") # {}
    /\ finalize_calls = 0

\* C4: one call of finalize appends exactly one outage line for each tracker
\* whose outage is open, none for a tracker whose outage is not open, and
\* nothing else.
C4_FinalizeOnePerOpen ==
    [][ finalize_calls' # finalize_calls =>
          /\ AppendOnly
          /\ \A h \in Hosts :
                Cardinality({i \in 1..Len(Added) : Added[i].host = h})
                    = IF stats[h].outage_open THEN 1 ELSE 0
          /\ \A i \in 1..Len(Added) : Added[i].kind = "OUTAGE"
      ]_vars

\* C4 witness: finalize has run while one tracker had an open outage and
\* another had none; the journal holds one line for the first only.
C4_Witness ==
    /\ finalize_calls = 1
    /\ \E h, g \in Hosts :
          /\ stats[h].outage_open /\ closed[h] = <<>>
          /\ ~stats[g].outage_open /\ hist[g] # <<>>
          /\ Cardinality(LinesOf(journal, h, "OUTAGE")) = 1
          /\ LinesOf(journal, g, "OUTAGE") = {}

\* C6: after at least one record_result, consecutive_failures is the length
\* of the trailing run of failures of the recorded outcomes; it is 0 exactly
\* when the most recent outcome was a success.
C6_TrailingFailures ==
    \A h \in Hosts :
        hist[h] # <<>> =>
            /\ stats[h].consecutive_failures = TrailingFailures(hist[h])
            /\ (stats[h].consecutive_failures = 0) <=> hist[h][Len(hist[h])]

\* C6 witness: two trailing failures after an earlier success.
C6_Witness ==
    \E h \in Hosts :
        /\ Len(hist[h]) >= 4
        /\ \E i \in 1..Len(hist[h]) : hist[h][i]
        /\ stats[h].consecutive_failures = 2

\* C7: after k record_result calls window_results holds the last
\* min(ROLLING_WINDOW, k) outcomes in arrival order, and packet_loss_pct()
\* is the number of failures among them / min(ROLLING_WINDOW, k) * 100, and
\* 0.0 when k = 0.
C7_Window ==
    \A h \in Hosts :
        LET k == Len(hist[h])
            n == Min(ROLLING_WINDOW, k)
            last == LastN(hist[h], n)
            fails == Cardinality({i \in 1..n : ~last[i]})
            pl == packet_loss_pct(stats[h])
        IN  /\ stats[h].window_results = last
            /\ Len(stats[h].window_results) <= ROLLING_WINDOW
            /\ k = 0 => pl.num = 0
            /\ k > 0 => pl.num * n = fails * 100 * pl.den

\* C7 witness: more results than the window holds, the evicted one a
\* failure, one failure left in the window.
C7_Witness ==
    \E h \in Hosts :
        /\ Len(hist[h]) > ROLLING_WINDOW
        /\ ~hist[h][1]
        /\ packet_loss_pct(stats[h]).num = 100
        /\ packet_loss_pct(stats[h]).den = ROLLING_WINDOW

\* C8: a failure run that starts with no open outage and in which
\* maybe_open_outage is called after every result: the outage is not open
\* after each of the first T-1 failures, and open with outage_missed = T
\* after the T-th; the maybe_close_outage that follows the next success
\* leaves outage_open false and consecutive_failures 0 and appends exactly
\* one outage line for the host, with missed = T.
C8_ThresholdScenario ==
    /\ [](  (~run.startOpen /\ ~run.skipped /\ ~run.pendingOpen) =>
              /\ stats[Tracked].consecutive_failures
                    \in 1..(CONSECUTIVE_FAILURES_FOR_OUTAGE - 1)
                    => ~stats[Tracked].outage_open
              /\ stats[Tracked].consecutive_failures
                    = CONSECUTIVE_FAILURES_FOR_OUTAGE
                    => /\ stats[Tracked].outage_open
                       /\ stats[Tracked].outage_missed
                             = CONSECUTIVE_FAILURES_FOR_OUTAGE )
    /\ [][ ( /\ ~run.startOpen /\ ~run.skipped
             /\ stats[Tracked].outage_open
             /\ ~stats'[Tracked].outage_open ) =>
              /\ stats'[Tracked].consecutive_failures = 0
              /\ AppendOnly
              /\ \E i \in 1..Len(Added) :
                    /\ Added[i].kind = "OUTAGE"
                    /\ Added[i].host = Tracked
                    /\ Added[i].missed = CONSECUTIVE_FAILURES_FOR_OUTAGE
                    /\ \A j \in 1..Len(Added) :
                          Added[j].kind = "OUTAGE" => j = i
         ]_vars

\* C8 witness: the scenario has run to its end: T failures, each followed by
\* maybe_open_outage, a success, maybe_close_outage, one line with missed = T.
C8_Witness ==
    /\ ~run.startOpen /\ ~run.skipped /\ ~run.pendingClose
    /\ Len(closed[Tracked]) = 1
    /\ ~stats[Tracked].outage_open
    /\ stats[Tracked].consecutive_failures = 0
    /\ stats[Tracked].failure_count = CONSECUTIVE_FAILURES_FOR_OUTAGE
    /\ \E i \in LinesOf(journal, Tracked, "OUTAGE") :
          journal[i].missed = CONSECUTIVE_FAILURES_FOR_OUTAGE

C10_CloseAndLongest ==
    /\ [](\A h \in Hosts :
             stats[h].longest_outage_duration = MaxOf(closed[h]))
    /\ [][ \A h \in Hosts :
             (stats[h].outage_open /\ ~stats'[h].outage_open) =>
               LET start == stats[h].outage_start_ts[1]
                   d == now - start
               IN  /\ AppendOnly
                   /\ Len(Added) >= 1
                   /\ Added[1] = [ kind |-> "OUTAGE", host |-> h,
                                   start_str |-> FormatTs(start),
                                   end_str |-> FormatTs(now),
                                   missed |-> stats[h].outage_missed,
                                   duration |-> FormatDuration(d) ]
                   /\ IF d > stats[h].longest_outage_duration
                      THEN /\ stats'[h].longest_outage_duration = d
                           /\ stats'[h].longest_outage_ts = Some(now)
                           /\ Len(Added) = 2
                           /\ Added[2] = [ kind |-> "LONGEST_OUTAGE", host |-> h,
                                           ts_str |-> FormatTs(now),
                                           duration |-> FormatDuration(d) ]
                      ELSE /\ stats'[h].longest_outage_duration
                                = stats[h].longest_outage_duration
                           /\ stats'[h].longest_outage_ts = stats[h].longest_outage_ts
                           /\ Len(Added) = 1
         ]_vars

\* C10 witness: two outages closed, the second as long as the first, so that
\* the second left longest_outage_duration and the journal's single
\* LONGEST_OUTAGE line alone.
C10_Witness ==
    \E h \in Hosts :
        /\ Len(closed[h]) = 2
        /\ closed[h][1] > 0
        /\ closed[h][2] = closed[h][1]
        /\ stats[h].longest_outage_duration = closed[h][1]
        /\ Cardinality(LinesOf(journal, h, "LONGEST_OUTAGE")) = 1
        /\ Cardinality(LinesOf(journal, h, "OUTAGE")) = 2

\* C3: for every host, after any sequence of probes, reconciliation calls
\* and journal write outcomes (success or failure of a write), the number of
\* outage lines in the journal for the host is the number of its closed
\* outages (OutageOpen -> Normal transitions): no outage is logged twice.
\* Stated for the runs without a finalize call and for the states in which
\* the host's outage is not open.
C3_OncePerTransition ==
    finalize_calls = 0 =>
        \A h \in Hosts :
            ~stats[h].outage_open =>
                Cardinality(LinesOf(journal, h, "OUTAGE")) = Len(closed[h])

\* C5: on shutdown every host whose outage is open at that moment gets a
\* close record before the process exits, so that no outage is left unclosed
\* in the journal.  Stated for the single-file variant: when main() is done,
\* the log holds an outage line for every server that is in_outage, with
\* the start of that outage.
C5_ShutdownClosesOutages ==
    mainpc = "done" =>
        \A server \in Hosts :
            outage_state[server].in_outage =>
                \E i \in 1..Len(slog) :
                    /\ slog[i].kind = "OUTAGE"
                    /\ slog[i].server = server
                    /\ slog[i].start = FormatClock(outage_state[server].outage_start[1])

\* whether the last outcome recorded for h was a success
LastOk(h) == hist[h] # <<>> /\ hist[h][Len(hist[h])]

\* the step is a call of record_result on h
Recorded(h) == hist'[h] # hist[h]

\* C11 (as stated): a tracker whose whole sequence holds an uptime streak of
\* duration d1 ended by a failure and a later one of duration d2 > d1 ended
\* by a failure ends with longest_uptime_streak = d2, and the new-longest
\* signal was raised exactly once over the sequence, for d2 and not for d1.
C11_Original ==
    LET e == streaks[Tracked].ended
    IN  (Len(e) = 2 /\ 0 < e[1] /\ e[1] < e[2]) =>
            /\ stats[Tracked].longest_uptime_streak = e[2]
            /\ streaks[Tracked].signals = <<e[2]>>

\* C11 (amended): in that sequence longest_uptime_streak ends equal to d2 and
\* the signal is raised once for each of the two streaks, each being longer
\* than every streak ended before it (the tracker starts with
\* longest_uptime_streak = 0): first for d1, then for d2, never twice for one
\* streak.  The signal is up only in the states that follow the failure that
\* ended the streak, and record_result appends no LONGEST_UPTIME line.
C11_SignalPerLongerStreak ==
    LET e == streaks[Tracked].ended
    IN  /\ (Len(e) = 2 /\ 0 < e[1] /\ e[1] < e[2]) =>
              /\ stats[Tracked].longest_uptime_streak = e[2]
              /\ streaks[Tracked].signals = <<e[1], e[2]>>
        /\ Len(streaks[Tracked].signals) <= Len(e)
        /\ stats[Tracked].new_longest_uptime_recorded =>
              /\ stats[Tracked].consecutive_failures = 1
              /\ e # <<>>
              /\ e[Len(e)] = stats[Tracked].longest_uptime_streak
        /\ LinesOf(journal, Tracked, "LONGEST_UPTIME") = {}

\* C11 witness: the two streaks have ended, the second longer than the first.
C11_Witness ==
    /\ streaks[Tracked].ended = <<1, 2>>
    /\ streaks[Tracked].signals = <<1, 2>>
    /\ stats[Tracked].longest_uptime_streak = 2
    /\ stats[Tracked].new_longest_uptime_recorded

\* C12: after a record_result call new_longest_uptime_recorded is true
\* exactly when the call was a failure arriving while uptime_start_time was
\* set and the streak it ended was strictly longer than the previous
\* longest_uptime_streak; no other call changes the flag;
\* longest_uptime_streak never decreases, is the largest duration of the
\* streaks ended so far (0 when there is none), and is left alone by a
\* success and by a failure that follows a failure.
C12_LongestUptime ==
    /\ [](stats[Tracked].longest_uptime_streak = MaxOf(streaks[Tracked].ended))
    /\ [][ /\ stats'[Tracked].longest_uptime_streak
                 >= stats[Tracked].longest_uptime_streak
           /\ ~Recorded(Tracked) =>
                 /\ stats'[Tracked].new_longest_uptime_recorded
                       = stats[Tracked].new_longest_uptime_recorded
                 /\ stats'[Tracked].longest_uptime_streak
                       = stats[Tracked].longest_uptime_streak
           /\ Recorded(Tracked) =>
                 LET failure == ~hist'[Tracked][Len(hist'[Tracked])]
                     start == stats[Tracked].uptime_start_time
                 IN  /\ stats'[Tracked].new_longest_uptime_recorded
                           <=> ( /\ failure
                                 /\ start # None
                                 /\ now - start[1]
                                       > stats[Tracked].longest_uptime_streak )
                     /\ (~failure \/ (hist[Tracked] # <<>> /\ ~LastOk(Tracked))) =>
                           stats'[Tracked].longest_uptime_streak
                               = stats[Tracked].longest_uptime_streak
        ]_vars

\* C12 witness: a second streak, shorter than the first, has ended without
\* raising the signal.
C12_Witness ==
    /\ streaks[Tracked].ended = <<2, 1>>
    /\ stats[Tracked].longest_uptime_streak = 2
    /\ ~stats[Tracked].new_longest_uptime_recorded
    /\ stats[Tracked].consecutive_failures = 1

\* C13: uptime_start_time is set exactly when consecutive_failures = 0 and a
\* success has been recorded since the last failure, that is when the most
\* recent outcome exists and was a success; it is then the time of the first
\* success of the current run of successes.
C13_UptimeStart ==
    \A h \in Hosts :
        /\ (stats[h].uptime_start_time # None) <=> LastOk(h)
        /\ (stats[h].uptime_start_time # None)
              <=> (stats[h].consecutive_failures = 0 /\ stats[h].success_count > 0)
        /\ hist[Tracked] # <<>> =>
              stats[Tracked].uptime_start_time = streaks[Tracked].from

\* C13 witness: a run of two successes after a failure, begun before now.
C13_Witness ==
    /\ Len(hist[Tracked]) >= 3
    /\ LastOk(Tracked)
    /\ hist[Tracked][Len(hist[Tracked]) - 1]
    /\ ~hist[Tracked][Len(hist[Tracked]) - 2]
    /\ stats[Tracked].uptime_start_time # None
    /\ stats[Tracked].uptime_start_time[1] < now
    /\ stats[Tracked].last_success_time = Some(now)

\* C14: a call of record_result leaves outage_open, outage_start_ts,
\* outage_missed, longest_outage_duration and longest_outage_ts as they were
\* and appends nothing to the journal, whatever the outcome and the state;
\* it completes for every outcome: a success without rtt is counted as a
\* success with last_rtt_ms absent, a failure without error as a failure
\* with last_error "fail".
C14_NoOutageTransition ==
    /\ [](\A h \in Hosts :
             stats[h].success_count + stats[h].failure_count = Len(hist[h]))
    /\ [][ \A h \in Hosts : Recorded(h) =>
             /\ stats'[h].outage_open = stats[h].outage_open
             /\ stats'[h].outage_start_ts = stats[h].outage_start_ts
             /\ stats'[h].outage_missed = stats[h].outage_missed
             /\ stats'[h].longest_outage_duration = stats[h].longest_outage_duration
             /\ stats'[h].longest_outage_ts = stats[h].longest_outage_ts
             /\ journal' = journal
             /\ ~raised'
             /\ fed'[h] = Some(<<TRUE, None, None>>) =>
                   /\ stats'[h].success_count = stats[h].success_count + 1
                   /\ stats'[h].last_rtt_ms = None
                   /\ stats'[h].last_error = None
             /\ fed'[h] = Some(<<FALSE, None, None>>) =>
                   /\ stats'[h].failure_count = stats[h].failure_count + 1
                   /\ stats'[h].last_rtt_ms = None
                   /\ stats'[h].last_error = Some("fail")
        ]_vars

\* C14 witness: a success without rtt was recorded while the outage was
\* open, and the outage is still open.
C14_Witness ==
    /\ fed[Tracked] = Some(<<TRUE, None, None>>)
    /\ stats[Tracked].outage_open
    /\ stats[Tracked].consecutive_failures = 0
    /\ stats[Tracked].outage_missed = CONSECUTIVE_FAILURES_FOR_OUTAGE
    /\ journal = <<>>

\* C16: classify_latency gives the timeout class exactly when last_rtt_ms is
\* absent, which is the case after every failure; otherwise green below
\* LATENCY_GREEN_MS, yellow from LATENCY_GREEN_MS to below
\* LATENCY_YELLOW_MS, red from LATENCY_YELLOW_MS on, of the rtt of the most
\* recent recorded outcome only.
C16_Classify ==
    \A h \in Hosts :
        LET c == classify_latency(stats[h])
        IN  /\ c \in {"timeout", "green", "yellow", "red"}
            /\ (c = "timeout") <=> (stats[h].last_rtt_ms = None)
            /\ fed[h] = None => c = "timeout"
            /\ fed[h] # None =>
                  LET ok == fed[h][1][1]
                      rtt == fed[h][1][2]
                  IN  /\ ~ok => c = "timeout"
                      /\ (ok /\ rtt = None) => c = "timeout"
                      /\ (ok /\ rtt # None) =>
                            /\ (c = "green") <=> (rtt[1] < LATENCY_GREEN_MS)
                            /\ (c = "yellow") <=> ( /\ LATENCY_GREEN_MS <= rtt[1]
                                                    /\ rtt[1] < LATENCY_YELLOW_MS )
                            /\ (c = "red") <=> (rtt[1] >= LATENCY_YELLOW_MS)

\* C16 witness: after an earlier failure and a green success, the last
\* success has the rtt LATENCY_GREEN_MS and is classified yellow.
C16_Witness ==
    /\ fed[Tracked] = Some(<<TRUE, Some(LATENCY_GREEN_MS), None>>)
    /\ classify_latency(stats[Tracked]) = "yellow"
    /\ stats[Tracked].failure_count > 0
    /\ stats[Tracked].success_count > 1

\* C17: after a record_result call fed with an outcome that ping_host can
\* produce, exactly one of last_rtt_ms and last_error is present:
\* last_rtt_ms exactly when the outcome was a success, last_error exactly
\* when it was a failure.
C17_ExactlyOne ==
    \A h \in Hosts :
        (fed[h] # None /\ fed[h][1] \in PingOutcomes) =>
            /\ (stats[h].last_rtt_ms # None) # (stats[h].last_error # None)
            /\ (stats[h].last_rtt_ms # None) <=> fed[h][1][1]
            /\ (stats[h].last_error # None) <=> ~fed[h][1][1]

\* C15: after every pass of stats_aggregator the global outage is open
\* (global_stats.outage_start_ts is set) exactly when every tracked host had
\* consecutive_failures > 0 at that pass, and the global uptime runs
\* (uptime_start_ts is set) exactly when not.
C15_GlobalOutage ==
    [][ (agg \in {"created", "sleep"} /\ agg' \in {"sleep", "raised"}) =>
          /\ (gstats'.outage_start_ts # None) <=> all_hosts_down(stats)
          /\ (gstats'.uptime_start_ts # None) <=> ~all_hosts_down(stats)
      ]_vars

\* C18: every PingResult returned by ping_host has ok true exactly when
\* error is absent, and rtt_ms present only when ok is true.
C18_PingResult ==
    \A h \in Hosts :
        ploop[h].res # None =>
            LET res == ploop[h].res[1]
            IN  /\ res.ok <=> (res.error = None)
                /\ res.rtt_ms # None => res.ok
                /\ res.host = h

\* C18 witness: one host got a success without rtt, the other a failure
\* classified unreachable.
C18_Witness ==
    \E h, g \in Hosts :
        /\ ploop[h].res = Some([host |-> h, ok |-> TRUE, rtt_ms |-> None,
                                error |-> None])
        /\ ploop[g].res = Some([host |-> g, ok |-> FALSE, rtt_ms |-> None,
                                error |-> Some("unreachable")])

\* C19: a probe that cannot be launched (create_subprocess_exec raises) is
\* recorded on the host's tracker as a failure with the error kind "other"
\* (failure_count and consecutive_failures incremented), and the probe loop
\* of that host and of every other host keeps running.
C19_LaunchFailureRecorded ==
    [][ \A h \in Hosts :
          ploop'[h].refused > ploop[h].refused =>
              /\ stats'[h].failure_count = stats[h].failure_count + 1
              /\ stats'[h].consecutive_failures = stats[h].consecutive_failures + 1
              /\ stats'[h].last_error = Some("other")
              /\ ploop'[h].pc = "sleep"
              /\ \A g \in Hosts \ {h} : ploop'[g] = ploop[g]
      ]_vars

\* C20 (as stated): every started probe yields exactly one outcome: a host
\* has at most one probe without outcome, and none once main_async is done.
C20_Original ==
    \A h \in Hosts :
        /\ ploop[h].started - Len(hist[h]) \in {0, 1}
        /\ amain = "done" => ploop[h].started = Len(hist[h])

\* C20 (amended): every probe whose subprocess was created yields at most
\* one outcome, and exactly one unless its ping_loop is cancelled at
\* shutdown while the probe is in flight: a probe does not stay pending; when
\* the subprocess does not complete within the deadline, ping_host returns
\* the failure (ok false, error "timeout"); the outcome is recorded in the
\* step in which ping_host returns, before the next probe of the host is
\* started; a host has at most one probe in flight.
C20_ProbeYieldsOutcome ==
    /\ [](\A h \in Hosts :
             /\ ploop[h].started
                   = Len(hist[h]) + (IF ploop[h].inflight THEN 1 ELSE 0)
             /\ ploop[h].inflight => ploop[h].pc \in {"wait", "cancelled"}
             /\ ploop[h].pc = "wait" => ploop[h].inflight)
    /\ [][ \A h \in Hosts :
             /\ ploop'[h].started > ploop[h].started =>
                   /\ ~ploop[h].inflight
                   /\ ploop[h].started = Len(hist[h])
                   /\ ploop'[h].started = ploop[h].started + 1
             /\ Recorded(h) =>
                   /\ ploop[h].pc = "wait"
                   /\ ploop'[h].pc = "sleep"
                   /\ Len(hist'[h]) = Len(hist[h]) + 1
                   /\ fed'[h] = Some(AsOutcome(ploop'[h].res[1]))
                   /\ stats'[h].success_count + stats'[h].failure_count
                         = stats[h].success_count + stats[h].failure_count + 1
                   /\ (ploop'[h].expired \/ now > ploop[h].deadline) =>
                         /\ fed'[h] = Some(<<FALSE, None, Some("timeout")>>)
                         /\ stats'[h].last_error = Some("timeout")
             /\ (ploop[h].inflight /\ ~ploop'[h].inflight) => Recorded(h)
         ]_vars
    /\ \A h \in Hosts : (ploop[h].pc = "wait") ~> (ploop[h].pc # "wait")

\* C20 witness: the first probe of a host ran into the deadline and was
\* recorded as a timeout, and the second probe of the host is in flight.
C20_Witness ==
    \E h \in Hosts :
        /\ ploop[h].expired
        /\ ploop[h].started = 2
        /\ ploop[h].pc = "wait"
        /\ hist[h] = <<FALSE>>
        /\ stats[h].last_error = Some("timeout")

\* C21: a journal write failure during reconciliation does not propagate out
\* of the reconciliation call, and the record whose append failed is
\* appended by a later call: once maybe_close_outage has returned with the
\* outage closed, the journal holds the outage line of every closed outage
\* and the LONGEST_OUTAGE line of the longest one.
C21_WriteFailureContained ==
    /\ [][ finalize_calls' = finalize_calls => ~raised' ]_vars
    /\ []( ( /\ finalize_calls = 0
             /\ ~stats[Tracked].outage_open
             /\ ~run.pendingClose ) =>
              /\ Cardinality(LinesOf(journal, Tracked, "OUTAGE"))
                    >= Len(closed[Tracked])
              /\ stats[Tracked].longest_outage_ts # None =>
                    \E i \in LinesOf(journal, Tracked, "LONGEST_OUTAGE") :
                        /\ journal[i].duration
                              = FormatDuration(stats[Tracked].longest_outage_duration)
                        /\ journal[i].ts_str
                              = FormatTs(stats[Tracked].longest_outage_ts[1]) )

\* C22: rotation runs before the append and never loses the record being
\* appended.  On every maybe_close_outage call that has an outage to log, the
\* outage's line is in the file after the call, also when the rename of the
\* old file failed; and when the file was rotated, the line is the first
\* line of the fresh file.
C22_RotationKeepsRecord ==
    [][ ( /\ stats[Tracked].outage_open
          /\ stats[Tracked].consecutive_failures = 0
          /\ now' = now /\ hist' = hist
          /\ (raised' \/ ~stats'[Tracked].outage_open) ) =>
            LET line == OutageLine(Tracked,
                                   OrElse(stats[Tracked].outage_start_ts, now),
                                   now, stats[Tracked].outage_missed)
            IN  /\ \E i \in 1..Len(journal') : journal'[i] = line
                /\ Len(logfile'.renamed) > Len(logfile.renamed) =>
                      journal'[1] = line ]_vars

\* C23: in every interleaving of the ping_loop tasks, the reconciliation
\* task and the UI task, whose switches happen only at awaits, no task finds
\* a tracker in the middle of record_result: whenever the loop is free no
\* call is stopped between two statements and every tracker is whole, and
\* every reading task, every open/close decision included, found whole
\* trackers.
C23_PerHostAtomic ==
    /\ obs.whole
    /\ cpu = "idle" => \A h \in Hosts : mid[h] = None /\ Whole(h)
    /\ \A h \in Hosts : mid[h] # None => cpu = h

\* a reconciliation pass has closed an outage of one host while the probes
\* of both hosts were recorded, the last observation being made between two
\* calls of record_result
C23_Witness ==
    /\ obs.task = "reconcile"
    /\ \E h \in Hosts : closed[h] # <<>>
    /\ \A h \in Hosts : hist[h] # <<>>

\* the number of maximal runs of at least CONSECUTIVE_FAILURES_FOR_OUTAGE
\* failures that a success has ended, in the outcomes o read from index i on,
\* cur being the length of the run of failures that ends before i
RECURSIVE EndedRuns(_, _, _)
EndedRuns(o, i, cur) ==
    IF i > Len(o) THEN 0
    ELSE IF o[i]
    THEN (IF cur >= CONSECUTIVE_FAILURES_FOR_OUTAGE THEN 1 ELSE 0)
         + EndedRuns(o, i + 1, 0)
    ELSE EndedRuns(o, i + 1, cur + 1)

\* C24: every maximal run of at least CONSECUTIVE_FAILURES_FOR_OUTAGE failed
\* probes of a host gets the outage opened once during the run and one close
\* record after the success that ends it, whatever the interleaving of
\* record_result with the reconciliation calls: once maybe_open_outage and
\* maybe_close_outage have both returned after the last result, a run that
\* is still going on has its outage open, and the journal holds one OUTAGE
\* line per run that a success has ended.
C24_EveryRunOpenedAndClosed ==
    (~run.pendingOpen /\ ~run.pendingClose) =>
        /\ TrailingFailures(hist[Tracked]) >= CONSECUTIVE_FAILURES_FOR_OUTAGE
              => stats[Tracked].outage_open
        /\ Cardinality(LinesOf(journal, Tracked, "OUTAGE"))
              = EndedRuns(hist[Tracked], 1, 0)

\* the length of the run of failures that the trailing successes of o ended
RECURSIVE EndedRun(_)
EndedRun(o) ==
    IF o = <<>> THEN 0
    ELSE IF o[Len(o)] THEN EndedRun(SubSeq(o, 1, Len(o) - 1))
    ELSE TrailingFailures(o)

\* C25 (as stated): the missed count written in the close record of a host
\* is the number of consecutive failed probes of the outage's run at close
\* time, the final tally, not only the count at the moment of opening.
C25_Original ==
    [][ (stats[Tracked].outage_open /\ ~stats'[Tracked].outage_open) =>
            /\ Added # <<>>
            /\ Added[1].missed = EndedRun(hist[Tracked]) ]_vars

\* C25 (amended): maybe_open_outage stores in outage_missed the value of
\* consecutive_failures it finds, at least the threshold; no call changes
\* outage_missed while the outage stays open, whatever failures follow; and
\* the close record carries that stored value.
C25_MissedAtOpening ==
    [][ /\ (~stats[Tracked].outage_open /\ stats'[Tracked].outage_open) =>
              /\ stats'[Tracked].outage_missed = stats[Tracked].consecutive_failures
              /\ stats'[Tracked].outage_missed >= CONSECUTIVE_FAILURES_FOR_OUTAGE
        /\ (stats[Tracked].outage_open /\ stats'[Tracked].outage_open) =>
              stats'[Tracked].outage_missed = stats[Tracked].outage_missed
        /\ (stats[Tracked].outage_open /\ ~stats'[Tracked].outage_open) =>
              /\ Added # <<>>
              /\ Added[1].kind = "OUTAGE"
              /\ Added[1].missed = stats[Tracked].outage_missed
              /\ Added[1].missed <= stats[Tracked].failure_count ]_vars

\* an outage opened at the third failure of a run of four has been closed
\* with missed = 3 in its record
C25_Witness ==
    /\ hist[Tracked] = <<FALSE, FALSE, FALSE, FALSE, TRUE>>
    /\ ~stats[Tracked].outage_open
    /\ Len(journal) >= 1
    /\ journal[1].kind = "OUTAGE"
    /\ journal[1].missed = CONSECUTIVE_FAILURES_FOR_OUTAGE

\* the lines of the global outage events, in journal order
GlobalLines(jr) == SelectSeq(jr, LAMBDA l : l.host = "GLOBAL")

\* C26: the global outage start and end events of the journal alternate,
\* beginning with a start; each step of the aggregator or of the shutdown
\* emits at most one of them; a start is emitted only by a pass that finds
\* every host with consecutive_failures > 0 while no global outage is
\* open; and after the shutdown there are as many ends as starts.
C26_GlobalEventsAlternate ==
    /\ []( LET g == GlobalLines(journal)
           IN  /\ \A i \in 1..Len(g) :
                     g[i].kind = IF i % 2 = 1 THEN "OUTAGE_OPEN"
                                 ELSE "OUTAGE_CLOSE"
               /\ amain = "done" => Len(g) % 2 = 0 )
    /\ [][ LET a == GlobalLines(Added)
           IN  /\ Len(a) <= 1
               /\ (a # <<>> /\ a[1].kind = "OUTAGE_OPEN") =>
                     /\ all_hosts_down(stats)
                     /\ gstats.outage_start_ts = None ]_vars

\* C27: after every completed pass of stats_aggregator exactly one of
\* uptime_start_ts and outage_start_ts is set; longest_uptime and
\* longest_outage never decrease, and each is changed only by a pass that
\* ends the corresponding streak (its start is set before the pass and
\* cleared by it), to the duration of that streak, strictly larger than the
\* stored one.
C27_GlobalStreaks ==
    /\ []( agg = "sleep" =>
             (gstats.uptime_start_ts # None) # (gstats.outage_start_ts # None) )
    /\ [][ /\ gstats'.longest_uptime >= gstats.longest_uptime
           /\ gstats'.longest_outage >= gstats.longest_outage
           /\ gstats'.longest_uptime # gstats.longest_uptime =>
                 /\ gstats.uptime_start_ts # None
                 /\ gstats'.uptime_start_ts = None
                 /\ gstats'.longest_uptime = now - gstats.uptime_start_ts[1]
           /\ gstats'.longest_outage # gstats.longest_outage =>
                 /\ gstats.outage_start_ts # None
                 /\ gstats'.outage_start_ts = None
                 /\ gstats'.longest_outage = now - gstats.outage_start_ts[1] ]_vars

\* C28: under record_result, maybe_open_outage, maybe_close_outage and
\* finalize, in every reachable state of every tracker, outage_open is true
\* exactly when outage_start_ts is set, and outage_missed is 0 whenever
\* outage_open is false.
C28_OutageFields ==
    \A h \in Hosts :
        /\ stats[h].outage_open <=> stats[h].outage_start_ts # None
        /\ ~stats[h].outage_open => stats[h].outage_missed = 0

\* an outage has been opened by maybe_open_outage and closed by
\* maybe_close_outage, and finalize has run: the three fields are back to
\* their defaults
C28_Witness ==
    /\ closed[Tracked] # <<>>
    /\ finalize_calls > 0
    /\ stats[Tracked].failure_count >= CONSECUTIVE_FAILURES_FOR_OUTAGE
    /\ ~stats[Tracked].outage_open
    /\ stats[Tracked].outage_start_ts = None
    /\ stats[Tracked].outage_missed = 0

\* C29: finalize closes the outages it logs.  After finalize returns no
\* tracker has an open outage (outage_start_ts and outage_missed cleared, the
\* duration of the outage counted for longest_outage_duration), so that
\* neither a repeated finalize nor a later maybe_close_outage appends a
\* second record for the same outage: the journal never holds more OUTAGE
\* lines of a host than outages were opened for it.
C29_FinalizeCloses ==
    /\ [][ finalize_calls' > finalize_calls =>
             \A h \in Hosts :
                /\ ~stats'[h].outage_open
                /\ stats'[h].outage_start_ts = None
                /\ stats'[h].outage_missed = 0
                /\ stats[h].outage_open =>
                      stats'[h].longest_outage_duration
                          >= now - stats[h].outage_start_ts[1] ]_vars
    /\ []( Cardinality(LinesOf(journal, Tracked, "OUTAGE"))
             <= Len(closed[Tracked])
                  + (IF stats[Tracked].outage_open THEN 1 ELSE 0) )

\* the step appends an outage record to connection_outages.log
SimpleLogged == slog' # slog /\ slog'[Len(slog')].kind = "OUTAGE"

\* C30: in the single-file variant, after every processed probe a server is
\* in_outage exactly when its consecutive_failures is at least
\* OUTAGE_THRESHOLD, and outage_count equals consecutive_failures whenever
\* in_outage; an outage record is written exactly by the steps in which a
\* success arrives for a server that is in_outage, and it carries that
\* server's outage_count.
C30_SimpleOutageState ==
    /\ []( \A s \in Hosts :
             /\ outage_state[s].in_outage <=>
                   sstats[s].consecutive_failures >= OUTAGE_THRESHOLD
             /\ outage_state[s].in_outage =>
                   outage_state[s].outage_count = sstats[s].consecutive_failures )
    /\ [][ /\ SimpleLogged <=>
                \E s \in Hosts : /\ outage_state[s].in_outage
                                 /\ sstats'[s].success = sstats[s].success + 1
           /\ \A s \in Hosts :
                (outage_state[s].in_outage /\ sstats'[s].success # sstats[s].success)
                    => /\ slog'[Len(slog')].server = s
                       /\ slog'[Len(slog')].count = outage_state[s].outage_count
                       /\ ~outage_state'[s].in_outage ]_vars

\* the outage of the first server has just been logged after a success,
\* while the second server is in an outage one failure past the threshold
C30_Witness ==
    /\ slog[Len(slog)].kind = "OUTAGE"
    /\ slog[Len(slog)].server = SERVERS[1]
    /\ slog[Len(slog)].count = OUTAGE_THRESHOLD
    /\ ~outage_state[SERVERS[1]].in_outage
    /\ outage_state[SERVERS[2]].in_outage
    /\ outage_state[SERVERS[2]].outage_count = OUTAGE_THRESHOLD + 1

====
